---- MODULE Spec2Model ----
(***************************************************************************)
(* OBJ/MTL model loading of the OpenGL viewer, in its two variants:        *)
(*                                                                         *)
(*   S  the shared-buffer Model   (src/unnamed/part_000, declared in       *)
(*      src/assets/shaders/fragment.glsl lines 187-343): one vertex        *)
(*      buffer, one index buffer, MeshPart slices of the index buffer;     *)
(*   P  the per-material Model    (src/glad/glframework/model.cpp):        *)
(*      RawObjData, then one Mesh with its own buffers per material group. *)
(*                                                                         *)
(* Both variants read the same OBJ file, one line per step.  The file is   *)
(* the environment's input: each step appends the line that is read to     *)
(* `file`, and the file may end after any line.                            *)
(*                                                                         *)
(* Numbers: a float is modelled as an exact extended rational <<n, d>> in  *)
(* lowest terms, d >= 0; <<1,0>> and <<-1,0>> are +inf and -inf and        *)
(* <<0,0>> is NaN, so that a division by zero yields what IEEE-754 yields. *)
(* Rounding is not modelled.                                               *)
(***************************************************************************)
EXTENDS Integers, Sequences, FiniteSets, TLC

(***************************************************************************)
(* Bounds of the model.                                                    *)
(***************************************************************************)
\* Largest number of lines of an OBJ file of the geometry alphabet.
MaxLines == 4

\* Largest number of lines of an OBJ file of the material-group alphabet.
MaxGroupLines == 5

\* Largest number of lines of an OBJ file of the cube-corner alphabet.
MaxCornerLines == 5

\* Largest number of lines of an OBJ file of the unparsable-ref alphabet.
MaxFaultLines == 5

\* Largest number of lines of an OBJ file of the material alphabet.
MaxMaterialLines == 5

\* Largest number of lines of a material library.
MaxMtlLines == 2

(***************************************************************************)
(* Extended rational arithmetic (IEEE-754 float without rounding).         *)
(***************************************************************************)
RECURSIVE GCD(_, _)
GCD(a, b) == IF b = 0 THEN a ELSE GCD(b, a % b)

Abs(n) == IF n < 0 THEN -n ELSE n

Sign(n) == IF n < 0 THEN -1 ELSE IF n > 0 THEN 1 ELSE 0

\* n/d in lowest terms; d may be negative or zero on entry.
Norm(n, d) ==
    IF d = 0 THEN <<Sign(n), 0>>
    ELSE IF d = 1 THEN <<n, 1>>
    ELSE LET g == GCD(Abs(n), Abs(d))
             s == IF d < 0 THEN -1 ELSE 1
         IN  <<(s * n) \div g, (s * d) \div g>>

ToRat(i) == <<i, 1>>

NaN == <<0, 0>>

IsNaN(x) == x = NaN

IsInf(x) == x[2] = 0 /\ x[1] # 0

IsFinite(x) == x[2] # 0

RNeg(x) == <<-x[1], x[2]>>

RAdd(x, y) ==
    IF IsNaN(x) \/ IsNaN(y) THEN NaN
    ELSE IF IsInf(x) THEN (IF IsInf(y) /\ y # x THEN NaN ELSE x)
    ELSE IF IsInf(y) THEN y
    ELSE Norm(x[1] * y[2] + y[1] * x[2], x[2] * y[2])

RSub(x, y) == RAdd(x, RNeg(y))

RMul(x, y) ==
    IF IsNaN(x) \/ IsNaN(y) THEN NaN
    ELSE Norm(x[1] * y[1], x[2] * y[2])

RDiv(x, y) ==
    IF IsNaN(x) \/ IsNaN(y) THEN NaN
    ELSE IF IsInf(y) THEN (IF IsInf(x) THEN NaN ELSE <<0, 1>>)
    ELSE IF x[2] = 0 THEN (IF y[1] < 0 THEN RNeg(x) ELSE x)
    ELSE Norm(x[1] * y[2], x[2] * y[1])

\* operator< of float: false as soon as a NaN is involved.
RLt(x, y) ==
    IF IsNaN(x) \/ IsNaN(y) THEN FALSE
    ELSE IF x[2] = 0 /\ y[2] = 0 THEN x[1] < y[1]
    ELSE x[1] * y[2] < y[1] * x[2]

\* operator!= of float: true as soon as a NaN is involved.
RNeq(x, y) == IsNaN(x) \/ IsNaN(y) \/ x # y

\* std::min(a, b) and std::max(a, b) of <algorithm>.
StdMin(a, b) == IF RLt(b, a) THEN b ELSE a

StdMax(a, b) == IF RLt(a, b) THEN b ELSE a

(***************************************************************************)
(* glm::vec3, glm::vec4 and glm::mat4 (column-major: m[c] is column c).    *)
(***************************************************************************)
Vec3(x, y, z) == <<x, y, z>>

V3Add(a, b) == <<RAdd(a[1], b[1]), RAdd(a[2], b[2]), RAdd(a[3], b[3])>>

V3Sub(a, b) == <<RSub(a[1], b[1]), RSub(a[2], b[2]), RSub(a[3], b[3])>>

V3Neg(a) == <<RNeg(a[1]), RNeg(a[2]), RNeg(a[3])>>

V3DivScalar(a, s) == <<RDiv(a[1], s), RDiv(a[2], s), RDiv(a[3], s)>>

V3MulScalar(a, s) == <<RMul(a[1], s), RMul(a[2], s), RMul(a[3], s)>>

V4Add(a, b) == <<RAdd(a[1], b[1]), RAdd(a[2], b[2]), RAdd(a[3], b[3]), RAdd(a[4], b[4])>>

V4MulScalar(a, s) == <<RMul(a[1], s), RMul(a[2], s), RMul(a[3], s), RMul(a[4], s)>>

Zero == ToRat(0)

One == ToRat(1)

\* glm::mat4(1.0f)
Mat4Identity ==
    << <<One, Zero, Zero, Zero>>, <<Zero, One, Zero, Zero>>,
       <<Zero, Zero, One, Zero>>, <<Zero, Zero, Zero, One>> >>

\* glm::scale(m, v): columns 0..2 of m times v.x, v.y, v.z; column 3 kept.
GlmScale(m, v) ==
    << V4MulScalar(m[1], v[1]), V4MulScalar(m[2], v[2]),
       V4MulScalar(m[3], v[3]), m[4] >>

\* glm::translate(m, v): m[3] = m[0]*v.x + m[1]*v.y + m[2]*v.z + m[3].
GlmTranslate(m, v) ==
    << m[1], m[2], m[3],
       V4Add(V4Add(V4Add(V4MulScalar(m[1], v[1]), V4MulScalar(m[2], v[2])),
                   V4MulScalar(m[3], v[3])), m[4]) >>

\* mat4 * vec4
Mat4MulVec4(m, v) ==
    V4Add(V4Add(V4Add(V4MulScalar(m[1], v[1]), V4MulScalar(m[2], v[2])),
                V4MulScalar(m[3], v[3])), V4MulScalar(m[4], v[4]))

(***************************************************************************)
(* The OBJ file: the lines the model draws its input from.                 *)
(***************************************************************************)
\* A face ref `p` has t = NoTex; `p/t` and `p/t/n` have the number t.
NoTex == -1

\* A field of a face ref that std::stoul cannot convert: empty (`1//3`) or
\* not a number (`a/b`).
Unparsable == -2

Ref(p, t) == [p |-> p, t |-> t]

\* std::stoul throws std::invalid_argument on some field of the ref.
StoulThrows(ref) == ref.p = Unparsable \/ ref.t = Unparsable

\* The geometry alphabet: `v` lines of two points (PosB has a different
\* extent on each axis), one `vt` line, one `usemtl` name, and the `f` lines
\*   f 1 2 1          three refs without texture index
\*   f 1/0 2/1 1/2    texture indices 0, 1 and 2
\*   f 1 2            two refs
\*   f 2 1 2 1        four refs
\*   f 1 3 0          a position index above the two points, and 0
PosA == <<0, 0, 0>>

PosB == <<2, 4, 1>>

PosValues == { PosA, PosB }

TexValues == { <<1, 1>> }

MaterialNames == { "A" }

FaceTriangle == << Ref(1, NoTex), Ref(2, NoTex), Ref(1, NoTex) >>

FaceTextured == << Ref(1, 0), Ref(2, 1), Ref(1, 2) >>

FaceTwoRefs == << Ref(1, NoTex), Ref(2, NoTex) >>

FaceFourRefs == << Ref(2, NoTex), Ref(1, NoTex), Ref(2, NoTex), Ref(1, NoTex) >>

FaceBadIndex == << Ref(1, NoTex), Ref(3, NoTex), Ref(0, NoTex) >>

FaceLines == { FaceTriangle, FaceTextured, FaceTwoRefs, FaceFourRefs, FaceBadIndex }

\* The material-group alphabet: one point, two `usemtl` names, and the `f` lines
\*   f 1 1 1          three refs
\*   f 1 1            two refs
GroupPosValues == { PosA }

GroupMaterialNames == { "A", "B" }

GroupFaceLines ==
    { << Ref(1, NoTex), Ref(1, NoTex), Ref(1, NoTex) >>,
      << Ref(1, NoTex), Ref(1, NoTex) >> }

\* The unparsable-ref alphabet: `v` lines of two points and the `f` lines
\*   f 1 2 1
\*   f 1//3 2//3 1//3     empty texture field
\*   f a/b 2 1            position and texture field not numbers
FaceEmptyTexField == << Ref(1, Unparsable), Ref(2, Unparsable), Ref(1, Unparsable) >>

FaceNotANumber == << Ref(Unparsable, Unparsable), Ref(2, NoTex), Ref(1, NoTex) >>

FaultFaceLines == { FaceTriangle, FaceEmptyTexField, FaceNotANumber }

\* The cube-corner alphabet: `v` lines of three corners of the unit cube, one
\* `usemtl` name, and the `f` line
\*   f 1 2 3
CornerPosValues == { <<0, 0, 0>>, <<1, 0, 0>>, <<0, 1, 0>> }

CornerFaceLines == { << Ref(1, NoTex), Ref(2, NoTex), Ref(3, NoTex) >> }

\* `ss >> pos.x >> pos.y >> pos.z` and `ss >> tex.x >> tex.y`: text to float.
ParseVec3(t) == <<ToRat(t[1]), ToRat(t[2]), ToRat(t[3])>>

ParseVec2(t) == <<ToRat(t[1]), ToRat(t[2])>>

VARIABLES
    file,                 \* the lines of the OBJ file read so far
    \* --- S: shared-buffer Model ---
    s_status,             \* "opening", "reading", "failed" (loadObjRawData returned
                          \* false), "loaded", "terminated" (uncaught exception)
    m_tempPositions,      \* std::vector<glm::vec3>
    m_tempTexCoords,      \* std::vector<glm::vec2>
    m_vertices,           \* std::vector<Vertex>
    m_indices,            \* std::vector<unsigned int>, 0-based values
    s_meshes,             \* std::vector<MeshPart> m_meshes
    s_currentMaterialName,\* local of loadObjRawData
    uniqueVertices,       \* std::map<Vertex, unsigned int>, local of loadObjRawData
    s_minCoords,          \* m_minCoords
    s_maxCoords,          \* m_maxCoords
    m_vao,                \* 0, or the id of the vertex array object
    s_reported,           \* TRUE once "loaded successfully" was printed
    \* --- P: per-material Model ---
    p_status,             \* "opening", "reading", "failed" (constructor's error path),
                          \* "loaded", "crashed", "terminated" (uncaught exception)
    rawData,              \* RawObjData of loadRawData
    p_currentMaterialName,\* local of loadRawData
    p_meshes,             \* std::vector<Mesh*> m_meshes
    p_minCoords,          \* m_minCoords
    p_maxCoords,          \* m_maxCoords
    m_localCenter,        \* m_localCenter
    p_reported,           \* TRUE once "loaded successfully" was printed
    \* --- materials ---
    library,              \* the material library file, once a `mtllib` line has named it
    s_materials,          \* S: std::map<std::string, Material*> m_materials
    p_materials,          \* P: std::map<std::string, Material*> m_materials
    p_meshMaterials,      \* P: m_material of each Mesh, in the order of p_meshes
    s_heap,               \* S: the Material and Texture objects made by `new` and
                          \* not yet deleted, as two counts
    p_heap,               \* P: the same
    \* --- the constructed Models in use ---
    calls,                \* the calls made on the Models since their construction
    s_pose,               \* S: m_currentPosition, m_currentRotation, m_currentScale,
                          \* m_modelMatrix, m_viewMatrix, m_projectionMatrix
    p_pose,               \* P: the same members
    s_gl,                 \* S: the texture bound to GL_TEXTURE_2D of unit 0 and the
                          \* glDrawElements calls issued so far
    p_gl                  \* P: the same

sVars == << s_status, m_tempPositions, m_tempTexCoords, m_vertices, m_indices,
            s_meshes, s_currentMaterialName, uniqueVertices, s_minCoords,
            s_maxCoords, m_vao, s_reported >>

pVars == << p_status, rawData, p_currentMaterialName, p_meshes, p_minCoords,
            p_maxCoords, m_localCenter, p_reported >>

mVars == << library, s_materials, p_materials, p_meshMaterials, s_heap, p_heap >>

rVars == << calls, s_pose, p_pose, s_gl, p_gl >>

vars == << file, sVars, pVars, mVars, rVars >>

(***************************************************************************)
(* S: struct Vertex and its ordering.                                      *)
(***************************************************************************)
Vertex(position, texCoord) == [position |-> position, texCoord |-> texCoord]

\* Vertex::operator<
VertexLess(a, b) ==
    IF RNeq(a.position[1], b.position[1]) THEN RLt(a.position[1], b.position[1])
    ELSE IF RNeq(a.position[2], b.position[2]) THEN RLt(a.position[2], b.position[2])
    ELSE IF RNeq(a.position[3], b.position[3]) THEN RLt(a.position[3], b.position[3])
    ELSE IF RNeq(a.texCoord[1], b.texCoord[1]) THEN RLt(a.texCoord[1], b.texCoord[1])
    ELSE IF RNeq(a.texCoord[2], b.texCoord[2]) THEN RLt(a.texCoord[2], b.texCoord[2])
    ELSE FALSE

\* The keys of a std::map<Vertex, ...> equivalent to v (at most one).
MapKeysOf(uv, v) == { k \in DOMAIN uv : ~VertexLess(k, v) /\ ~VertexLess(v, k) }

\* uniqueVertices.count(v)
MapCount(uv, v) == Cardinality(MapKeysOf(uv, v))

\* uniqueVertices[v] of a key that is present
MapAt(uv, v) == uv[CHOOSE k \in MapKeysOf(uv, v) : TRUE]

\* MapInsert with the slot counted from 1.
MapInsertOffByOne(uv, v, n) ==
    [k \in DOMAIN uv \cup {v} |-> IF k = v THEN n + 1 ELSE uv[k]]

\* uniqueVertices[v] = n of a key that is absent
MapInsert(uv, v, n) == [k \in DOMAIN uv \cup {v} |-> IF k = v THEN n ELSE uv[k]]

EmptyMap == [k \in {} |-> 0]

(***************************************************************************)
(* S: Model::loadObjRawData, one line at a time.                           *)
(***************************************************************************)
MeshPart(baseIndex, indexCount, materialName) ==
    [baseIndex |-> baseIndex, indexCount |-> indexCount, materialName |-> materialName]

\* S_OpenPart without the indexCount of the part that ends.
S_OpenPartNoClose(meshes, indices, name) ==
    IF meshes = <<>> \/ meshes[Len(meshes)].materialName # name
    THEN Append(meshes, MeshPart(Len(indices), 0, name))
    ELSE meshes

\* `if (m_meshes.empty() || m_meshes.back().materialName != currentMaterialName)`
S_OpenPart(meshes, indices, name) ==
    IF meshes = <<>> \/ meshes[Len(meshes)].materialName # name
    THEN LET closed ==
                 IF meshes # <<>>
                 THEN [meshes EXCEPT ![Len(meshes)].indexCount =
                           Len(indices) - meshes[Len(meshes)].baseIndex]
                 ELSE meshes
         IN  Append(closed, MeshPart(Len(indices), 0, name))
    ELSE meshes

\* S_ClosePart that leaves the indexCount of the last part at 0.
S_ClosePartNoCount(meshes, indices) ==
    meshes

\* `m_meshes.back().indexCount = m_indices.size() - m_meshes.back().baseIndex`
S_ClosePart(meshes, indices) ==
    IF meshes # <<>>
    THEN [meshes EXCEPT ![Len(meshes)].indexCount =
              Len(indices) - meshes[Len(meshes)].baseIndex]
    ELSE meshes

\* The position of a ref: `v_idx > 0 && v_idx <= m_tempPositions.size()`.
S_PosIndexValid(v_idx, positions) == v_idx > 0 /\ v_idx <= Len(positions)

\* The texCoord of a ref: the vt entry, or (0,0) for 0, absent or out of range.
S_TexCoordOf(ref, texCoords) ==
    LET vt_idx == IF ref.t = NoTex THEN 0 ELSE ref.t
    IN  IF vt_idx > 0 /\ vt_idx <= Len(texCoords)
        THEN texCoords[vt_idx]
        ELSE <<Zero, Zero>>

\* `for (int i = 0; i < 3; ++i)` of the `f` branch, from iteration i on.
\* st = [vertices, indices, uv, ok, threw]; ok = FALSE is `return false`,
\* threw = TRUE is a std::invalid_argument leaving std::stoul.
RECURSIVE S_FaceLoop(_, _, _, _, _)
S_FaceLoop(refs, i, positions, texCoords, st) ==
    IF i >= 3 THEN st
    ELSE IF i + 1 > Len(refs)
    THEN [st EXCEPT !.indices = SubSeq(st.indices, 1, Len(st.indices) - i),
                    !.ok = FALSE]
    ELSE LET ref == refs[i + 1]
         IN  IF StoulThrows(ref)
             THEN [st EXCEPT !.ok = FALSE, !.threw = TRUE]
             ELSE IF ~S_PosIndexValid(ref.p, positions)
             THEN [st EXCEPT !.ok = FALSE]
             ELSE LET tempVertex == Vertex(positions[ref.p],
                                           S_TexCoordOf(ref, texCoords))
                      isNew == MapCount(st.uv, tempVertex) = 0
                      uv2 == IF isNew
                             THEN MapInsert(st.uv, tempVertex, Len(st.vertices))
                             ELSE st.uv
                      vs2 == IF isNew
                             THEN Append(st.vertices, tempVertex)
                             ELSE st.vertices
                  IN  S_FaceLoop(refs, i + 1, positions, texCoords,
                                 [vertices |-> vs2,
                                  indices |-> Append(st.indices, MapAt(uv2, tempVertex)),
                                  uv |-> uv2,
                                  ok |-> TRUE,
                                  threw |-> FALSE])

\* The `v`, `vt` and `usemtl` branches.
S_OnV(pos) ==
    /\ m_tempPositions' = Append(m_tempPositions, ParseVec3(pos))
    /\ UNCHANGED << s_status, m_tempTexCoords, m_vertices, m_indices, s_meshes,
                    s_currentMaterialName, uniqueVertices, s_minCoords,
                    s_maxCoords, m_vao, s_reported >>

S_OnVt(tex) ==
    /\ m_tempTexCoords' = Append(m_tempTexCoords, ParseVec2(tex))
    /\ UNCHANGED << s_status, m_tempPositions, m_vertices, m_indices, s_meshes,
                    s_currentMaterialName, uniqueVertices, s_minCoords,
                    s_maxCoords, m_vao, s_reported >>

\* S_OnUsemtl that opens a part for the name at once.
S_OnUsemtlOpensPart(name) ==
    /\ s_currentMaterialName' = name
    /\ s_meshes' = Append(s_meshes, MeshPart(Len(m_indices), 0, name))
    /\ UNCHANGED << s_status, m_tempPositions, m_tempTexCoords, m_vertices,
                    m_indices, uniqueVertices, s_minCoords, s_maxCoords, m_vao,
                    s_reported >>

\* S_OnUsemtl that leaves the current name as it is.
S_OnUsemtlIgnored(name) ==
    UNCHANGED sVars

S_OnUsemtl(name) ==
    /\ s_currentMaterialName' = name
    /\ UNCHANGED << s_status, m_tempPositions, m_tempTexCoords, m_vertices,
                    m_indices, s_meshes, uniqueVertices, s_minCoords,
                    s_maxCoords, m_vao, s_reported >>

\* The `f` branch.  `return false` leaves the constructor through its error
\* path (part_000 lines 17-20): nothing else of the constructor runs.  An
\* exception of std::stoul is caught nowhere: std::terminate ends the process.
S_OnF(refs) ==
    LET opened == S_OpenPart(s_meshes, m_indices, s_currentMaterialName)
        r == S_FaceLoop(refs, 0, m_tempPositions, m_tempTexCoords,
                        [vertices |-> m_vertices, indices |-> m_indices,
                         uv |-> uniqueVertices, ok |-> TRUE, threw |-> FALSE])
    IN  /\ s_meshes' = opened
        /\ m_vertices' = r.vertices
        /\ m_indices' = r.indices
        /\ uniqueVertices' = r.uv
        /\ s_status' = IF r.threw THEN "terminated"
                       ELSE IF r.ok THEN "reading" ELSE "failed"
        /\ UNCHANGED << m_tempPositions, m_tempTexCoords, s_currentMaterialName,
                        s_minCoords, s_maxCoords, m_vao, s_reported >>

(***************************************************************************)
(* calculateBoundingBox and the normalisation transform of processData     *)
(* (the same code in both variants).                                       *)
(***************************************************************************)
\* std::numeric_limits<float>::max(): a stand-in above every coordinate.
FLT_MAX == 1000000

RECURSIVE BoundingBoxLoop(_, _, _)
BoundingBoxLoop(positions, i, box) ==
    IF i > Len(positions) THEN box
    ELSE LET pos == positions[i]
         IN  BoundingBoxLoop(positions, i + 1,
                 [min |-> <<StdMin(box.min[1], pos[1]), StdMin(box.min[2], pos[2]),
                            StdMin(box.min[3], pos[3])>>,
                  max |-> <<StdMax(box.max[1], pos[1]), StdMax(box.max[2], pos[2]),
                            StdMax(box.max[3], pos[3])>>])

\* Model::calculateBoundingBox: [min, max] over all raw positions.
CalculateBoundingBox(positions) ==
    BoundingBoxLoop(positions, 1,
        [min |-> <<ToRat(FLT_MAX), ToRat(FLT_MAX), ToRat(FLT_MAX)>>,
         max |-> <<ToRat(-FLT_MAX), ToRat(-FLT_MAX), ToRat(-FLT_MAX)>>])

\* `glm::vec3 center = (m_minCoords + m_maxCoords) / 2.0f`
CenterOf(minC, maxC) == V3DivScalar(V3Add(minC, maxC), ToRat(2))

\* `std::max({ extent.x, extent.y, extent.z })`
MaxDimOf(minC, maxC) ==
    LET extent == V3Sub(maxC, minC)
    IN  StdMax(StdMax(extent[1], extent[2]), extent[3])

\* `float scale_factor = 2.0f / max_dim`
ScaleFactorOf(minC, maxC) == RDiv(ToRat(2), MaxDimOf(minC, maxC))

\* InitialTransform with the two glm calls in the other order.
InitialTransformTranslateFirst(minC, maxC) ==
    LET s == ScaleFactorOf(minC, maxC)
    IN  GlmScale(GlmTranslate(Mat4Identity, V3Neg(CenterOf(minC, maxC))), <<s, s, s>>)

\* `initialTransform = translate(scale(mat4(1), vec3(scale_factor)), -center)`
InitialTransform(minC, maxC) ==
    LET s == ScaleFactorOf(minC, maxC)
    IN  GlmTranslate(GlmScale(Mat4Identity, <<s, s, s>>), V3Neg(CenterOf(minC, maxC)))

\* `glm::vec3(initialTransform * glm::vec4(position, 1.0f))`
TransformPosition(m, position) ==
    LET r == Mat4MulVec4(m, <<position[1], position[2], position[3], One>>)
    IN  <<r[1], r[2], r[3]>>

(***************************************************************************)
(* S: the rest of the constructor once loadObjRawData has returned true.   *)
(***************************************************************************)
\* Model::processData of S: transforms m_vertices in place.
S_processData(vertices, minC, maxC) ==
    IF vertices = <<>> THEN vertices
    ELSE LET m == InitialTransform(minC, maxC)
         IN  [i \in 1..Len(vertices) |->
                 [vertices[i] EXCEPT !.position = TransformPosition(m, @)]]

\* Model::setupBuffers of S: the id of the VAO it generates, 0 when it returns early.
S_setupBuffers(vertices, indices) ==
    IF vertices = <<>> \/ indices = <<>> THEN 0 ELSE 1

\* End of file: the tail of loadObjRawData, then calculateBoundingBox,
\* processData, setupBuffers and the "loaded successfully" message.
S_Finish ==
    LET box == CalculateBoundingBox(m_tempPositions)
    IN  /\ s_meshes' = S_ClosePart(s_meshes, m_indices)
        /\ s_minCoords' = box.min
        /\ s_maxCoords' = box.max
        /\ m_vertices' = S_processData(m_vertices, box.min, box.max)
        /\ m_vao' = S_setupBuffers(m_vertices, m_indices)
        /\ s_reported' = TRUE
        /\ s_status' = "loaded"
        /\ UNCHANGED << m_tempPositions, m_tempTexCoords, m_indices,
                        s_currentMaterialName, uniqueVertices >>

(***************************************************************************)
(* P: Model::loadRawData, one line at a time.                              *)
(***************************************************************************)
\* UINT_MAX stands for 2^32 - 1, the value of `0u - 1`; the model only needs
\* it to exceed the size of every container.
UINT_MAX == 2147483647

\* `std::stoul(s) - 1` stored in an unsigned int.
StoulMinus1(n) == IF n = 0 THEN UINT_MAX ELSE n - 1

VertexIndices(posIndex, texCoordIndex) ==
    [posIndex |-> posIndex, texCoordIndex |-> texCoordIndex]

MeshGroup(materialName, faceIndices) ==
    [materialName |-> materialName, faceIndices |-> faceIndices]

\* One token of an `f` line: "v", "v/vt" or "v/vt/vn".
P_ParseRef(ref) ==
    IF ref.t # NoTex
    THEN VertexIndices(StoulMinus1(ref.p), StoulMinus1(ref.t))
    ELSE VertexIndices(StoulMinus1(ref.p), 0)

\* `if (face.vertices.size() == 3)`
P_FaceAccepted(face) == Len(face) = 3

P_OnV(pos) ==
    /\ rawData' = [rawData EXCEPT !.positions = Append(@, ParseVec3(pos))]
    /\ UNCHANGED << p_status, p_currentMaterialName, p_meshes, p_minCoords,
                    p_maxCoords, m_localCenter, p_reported >>

P_OnVt(tex) ==
    /\ rawData' = [rawData EXCEPT !.texCoords = Append(@, ParseVec2(tex))]
    /\ UNCHANGED << p_status, p_currentMaterialName, p_meshes, p_minCoords,
                    p_maxCoords, m_localCenter, p_reported >>

\* The `f` branch: `while (ss >> vertexStr)` converts every token of the
\* line; an exception of std::stoul is caught nowhere.
P_OnF(refs) ==
    LET face == [i \in 1..Len(refs) |-> P_ParseRef(refs[i])]
        n == Len(rawData.meshGroups)
        threw == \E i \in 1..Len(refs) : StoulThrows(refs[i])
    IN  /\ rawData' =
               IF ~threw /\ P_FaceAccepted(face)
               THEN [rawData EXCEPT
                        !.faces = Append(@, face),
                        !.meshGroups[n].faceIndices = Append(@, Len(rawData.faces))]
               ELSE rawData
        /\ p_status' = IF threw THEN "terminated" ELSE p_status
        /\ UNCHANGED << p_currentMaterialName, p_meshes, p_minCoords,
                        p_maxCoords, m_localCenter, p_reported >>

\* The `usemtl` branch: a group is added when no group has the name, and
\* again when the last group does not have it.
P_OnUsemtl(name) ==
    LET groups == rawData.meshGroups
        found == \E i \in 1..Len(groups) : groups[i].materialName = name
        g1 == IF ~found THEN Append(groups, MeshGroup(name, <<>>)) ELSE groups
        g2 == IF g1[Len(g1)].materialName # name
              THEN Append(g1, MeshGroup(name, <<>>))
              ELSE g1
    IN  /\ p_currentMaterialName' = name
        /\ rawData' = [rawData EXCEPT !.meshGroups = g2]
        /\ UNCHANGED << p_status, p_meshes, p_minCoords, p_maxCoords,
                        m_localCenter, p_reported >>

(***************************************************************************)
(* P: Model::processData.                                                  *)
(***************************************************************************)
\* What reading rawData.positions[i] beyond the end of the vector can do:
\* the process dies, or the read yields whatever the memory holds.
GarbagePositions == { <<9, 9, 9>>, <<0, 0, 0>> }

UBOutcomes ==
    { [crash |-> TRUE, value |-> <<0, 0, 0>>] } \cup
    { [crash |-> FALSE, value |-> g] : g \in GarbagePositions }

\* `rawData.positions[vi.posIndex]`
P_PositionAt(positions, posIndex, ub) ==
    IF posIndex < Len(positions) THEN positions[posIndex + 1]
    ELSE ParseVec3(ub.value)

\* `if (vi.texCoordIndex < rawData.texCoords.size())`
P_TexCoordAt(texCoords, texCoordIndex) ==
    IF texCoordIndex < Len(texCoords) THEN texCoords[texCoordIndex + 1]
    ELSE <<Zero, Zero>>

\* The refs of the faces of a group, in the order the two nested loops visit them.
RECURSIVE P_GroupRefs(_, _, _)
P_GroupRefs(faces, faceIndices, k) ==
    IF k > Len(faceIndices) THEN <<>>
    ELSE faces[faceIndices[k] + 1] \o P_GroupRefs(faces, faceIndices, k + 1)

\* The loops over the faces of one group, from ref k on.
\* st = [uv, vertices, indices]; uv is the map (posIndex, texCoordIndex) -> slot.
RECURSIVE P_GroupLoop(_, _, _, _, _, _, _)
P_GroupLoop(refs, k, positions, texCoords, m, ub, st) ==
    IF k > Len(refs) THEN st
    ELSE LET vi == refs[k]
             key == <<vi.posIndex, vi.texCoordIndex>>
             isNew == key \notin DOMAIN st.uv
             uv2 == IF isNew
                    THEN [x \in DOMAIN st.uv \cup {key} |->
                             IF x = key THEN Len(st.vertices) ELSE st.uv[x]]
                    ELSE st.uv
             vs2 == IF isNew
                    THEN Append(st.vertices,
                             Vertex(TransformPosition(m,
                                        P_PositionAt(positions, vi.posIndex, ub)),
                                    P_TexCoordAt(texCoords, vi.texCoordIndex)))
                    ELSE st.vertices
         IN  P_GroupLoop(refs, k + 1, positions, texCoords, m, ub,
                         [uv |-> uv2, vertices |-> vs2,
                          indices |-> Append(st.indices, uv2[key])])

\* A Mesh: its vertex buffer (5 floats per vertex), its index buffer, the name
\* of the group it was built from and the map that built it.
Mesh(st, materialName) ==
    [vertices |-> st.vertices, indices |-> st.indices,
     materialName |-> materialName, uv |-> st.uv]

\* `for (const auto& meshGroup : rawData.meshGroups)`, from group g on.
RECURSIVE P_MeshLoop(_, _, _, _, _)
P_MeshLoop(raw, g, m, ub, meshes) ==
    IF g > Len(raw.meshGroups) THEN meshes
    ELSE LET group == raw.meshGroups[g]
             st == P_GroupLoop(P_GroupRefs(raw.faces, group.faceIndices, 1), 1,
                               raw.positions, raw.texCoords, m, ub,
                               [uv |-> [x \in {} |-> 0], vertices |-> <<>>,
                                indices |-> <<>>])
         IN  P_MeshLoop(raw, g + 1, m, ub,
                        IF st.vertices # <<>> /\ st.indices # <<>>
                        THEN Append(meshes, Mesh(st, group.materialName))
                        ELSE meshes)

\* Some face makes processData read rawData.positions out of bounds.
P_ReadsOutOfBounds(raw) ==
    \E f \in 1..Len(raw.faces) : \E j \in 1..Len(raw.faces[f]) :
        raw.faces[f][j].posIndex >= Len(raw.positions)

\* `if (rawData.positions.empty() || rawData.faces.empty())` of the constructor
P_LoadRejected(raw) == raw.positions = <<>> \/ raw.faces = <<>>

\* End of file: the constructor after loadRawData has returned.
P_Finish(ub) ==
    IF P_LoadRejected(rawData)
    THEN /\ p_status' = "failed"
         /\ UNCHANGED << rawData, p_currentMaterialName, p_meshes, p_minCoords,
                         p_maxCoords, m_localCenter, p_reported >>
    ELSE LET box == CalculateBoundingBox(rawData.positions)
         IN  /\ p_minCoords' = box.min
             /\ p_maxCoords' = box.max
             /\ m_localCenter' = CenterOf(box.min, box.max)
             /\ IF P_ReadsOutOfBounds(rawData) /\ ub.crash
                THEN /\ p_status' = "crashed"
                     /\ UNCHANGED << p_meshes, p_reported >>
                ELSE /\ p_meshes' = P_MeshLoop(rawData, 1,
                                        InitialTransform(box.min, box.max), ub, <<>>)
                     /\ p_reported' = TRUE
                     /\ p_status' = "loaded"
             /\ UNCHANGED << rawData, p_currentMaterialName >>

(***************************************************************************)
(* The material library, class Material of S and of P, and the materials   *)
(* of the two Models.                                                      *)
(***************************************************************************)
\* A pointer: <<>> is nullptr, <<x>> points to x.
NullPtr == <<>>

PtrTo(x) == <<x>>

\* class Texture is not part of these sources.  Material::loadDiffuseTexture
\* tells a failed load by getTextureID() == 0.
Texture(decodes) == [textureID |-> IF decodes THEN 1 ELSE 0]

MtlLine(type, arg) == [type |-> type, arg |-> arg]

\* The lines a material library is made of: two names, one texture path, one
\* specular colour.
MtlNames == { "A", "B" }

MtlLines ==
    { MtlLine("newmtl", n) : n \in MtlNames } \cup
    { MtlLine("map_Kd", "t.png"), MtlLine("Ks", "1 1 1") }

MtlFiles == UNION { [1..n -> MtlLines] : n \in 0..MaxMtlLines }

\* `ss >> specular.x >> specular.y >> specular.z` of the text "1 1 1"
ParseKs(text) == IF text = "1 1 1" THEN <<One, One, One>> ELSE <<Zero, Zero, Zero>>

\* No `mtllib` line has been read.
NoLibrary == [named |-> FALSE, opens |-> FALSE, lines |-> <<>>, decodes |-> FALSE]

\* The library files a `mtllib` line can name: one that cannot be opened, or
\* one with lines, whose texture image can or cannot be decoded.
Libraries ==
    { [named |-> TRUE, opens |-> FALSE, lines |-> <<>>, decodes |-> FALSE] } \cup
    { [named |-> TRUE, opens |-> TRUE, lines |-> l, decodes |-> d] :
          l \in MtlFiles, d \in BOOLEAN }

EmptyMaterials == [n \in {} |-> NullPtr]

\* std::map::operator[] with assignment.
MapPut(m, key, value) == [k \in DOMAIN m \cup {key} |-> IF k = key THEN value ELSE m[k]]

\* S: class Material, `glm::vec3 specular = glm::vec3(0.333333f)`.
S_DefaultSpecular == << Norm(333333, 1000000), Norm(333333, 1000000), Norm(333333, 1000000) >>

\* S: `new Material(matName)`
S_Material(matName) ==
    [name |-> matName, specular |-> S_DefaultSpecular,
     diffuseTexturePath |-> "", diffuseTexture |-> NullPtr]

\* S: the `while (std::getline(file, line))` loop of loadMaterials, from line i
\* on; current is <<>> while currentMaterial is nullptr, else <<its key>>.
RECURSIVE S_MtlLoop(_, _, _, _)
S_MtlLoop(lines, i, current, materials) ==
    IF i > Len(lines) THEN materials
    ELSE LET ln == lines[i]
         IN  IF ln.type = "newmtl"
             THEN S_MtlLoop(lines, i + 1, <<ln.arg>>,
                            MapPut(materials, ln.arg, PtrTo(S_Material(ln.arg))))
             ELSE IF current # <<>> /\ ln.type = "map_Kd"
             THEN S_MtlLoop(lines, i + 1, current,
                      [materials EXCEPT ![current[1]][1].diffuseTexturePath = ln.arg])
             ELSE IF current # <<>> /\ ln.type = "Ks"
             THEN S_MtlLoop(lines, i + 1, current,
                      [materials EXCEPT ![current[1]][1].specular = ParseKs(ln.arg)])
             ELSE S_MtlLoop(lines, i + 1, current, materials)

\* S: Material::loadDiffuseTexture
S_loadDiffuseTexture(mat, decodes) ==
    IF mat.diffuseTexturePath # "" /\ mat.diffuseTexture = NullPtr
    THEN [mat EXCEPT !.diffuseTexture =
              IF Texture(decodes).textureID = 0 THEN NullPtr ELSE PtrTo(Texture(decodes))]
    ELSE mat

\* S: Model::loadMaterials
S_loadMaterials(lib, materials) ==
    IF ~lib.opens THEN materials
    ELSE LET parsed == S_MtlLoop(lib.lines, 1, <<>>, materials)
         IN  [n \in DOMAIN parsed |->
                 IF parsed[n][1].diffuseTexturePath = "" THEN parsed[n]
                 ELSE PtrTo(S_loadDiffuseTexture(parsed[n][1], lib.decodes))]

\* The heap: how many Material and Texture objects `new` has made and
\* `delete` has not released.
Heap(materials, textures) == [materials |-> materials, textures |-> textures]

EmptyHeap == Heap(0, 0)

HeapAdd(h, d) == Heap(h.materials + d.materials, h.textures + d.textures)

HeapSub(h, d) == Heap(h.materials - d.materials, h.textures - d.textures)

LinesOfType(lines, type) == SelectSeq(lines, LAMBDA ln : ln.type = type)

\* S: what a call of loadMaterials leaves on the heap: one `new Material` for
\* every `newmtl` line, and the `new Texture` of every loadDiffuseTexture
\* that did not delete it again.
S_loadMaterialsNew(lib, materials) ==
    IF ~lib.opens THEN EmptyHeap
    ELSE LET parsed == S_MtlLoop(lib.lines, 1, <<>>, materials)
             loaded == S_loadMaterials(lib, materials)
         IN  Heap(Len(LinesOfType(lib.lines, "newmtl")),
                  Cardinality({ n \in DOMAIN parsed :
                                    /\ parsed[n][1].diffuseTexture = NullPtr
                                    /\ loaded[n][1].diffuseTexture # NullPtr }))

\* S: Model::~Model deletes every Material of the map, and Material::~Material
\* its diffuseTexture.
S_Released(materials) ==
    Heap(Cardinality({ n \in DOMAIN materials : materials[n] # NullPtr }),
         Cardinality({ n \in DOMAIN materials :
                           /\ materials[n] # NullPtr
                           /\ materials[n][1].diffuseTexture # NullPtr }))

\* P: class Material, `glm::vec3 m_Ks = glm::vec3(0.333f)`.
P_DefaultKs == << Norm(333, 1000), Norm(333, 1000), Norm(333, 1000) >>

\* P: the `while (std::getline(file, line))` loop of Material::loadMtlFile.
RECURSIVE P_MtlLoop(_, _, _, _)
P_MtlLoop(lines, i, decodes, mat) ==
    IF i > Len(lines) THEN mat
    ELSE LET ln == lines[i]
         IN  P_MtlLoop(lines, i + 1, decodes,
                 IF ln.type = "newmtl" THEN [mat EXCEPT !.m_name = ln.arg]
                 ELSE IF ln.type = "map_Kd"
                      THEN [mat EXCEPT !.m_diffuseTexture = PtrTo(Texture(decodes))]
                 ELSE IF ln.type = "Ks" THEN [mat EXCEPT !.m_Ks = ParseKs(ln.arg)]
                 ELSE mat)

\* P: `new Material(mtlFilePath, baseDir)`
P_Material(lib) ==
    LET fresh == [m_name |-> "", m_Ks |-> P_DefaultKs, m_diffuseTexture |-> NullPtr]
    IN  IF lib.opens THEN P_MtlLoop(lib.lines, 1, lib.decodes, fresh) ELSE fresh

\* P: `new Material("", "")` with m_name set to "default".
P_DefaultMaterial ==
    [P_Material(NoLibrary) EXCEPT !.m_name = "default"]

\* P: m_materials once processData has read the library and added the
\* default material to an empty map.
P_LoadedMaterials(raw, lib) ==
    LET mat == P_Material(lib)
        read == IF raw.mtlLibName # "" /\ mat.m_name # ""
                THEN MapPut(EmptyMaterials, mat.m_name, PtrTo(mat))
                ELSE EmptyMaterials
    IN  IF DOMAIN read = {} THEN MapPut(read, "default", PtrTo(P_DefaultMaterial))
        ELSE read

\* P: what the materials part of processData leaves on the heap: the Material
\* of the library and one `new Texture` for every `map_Kd` line, less the
\* Material deleted for its empty name (with the Texture it then holds), and
\* the default Material of an empty map.
P_LoadedMaterialsNew(raw, lib) ==
    LET mat == P_Material(lib)
        textures == IF lib.opens THEN Len(LinesOfType(lib.lines, "map_Kd")) ELSE 0
        read == IF raw.mtlLibName = "" THEN EmptyHeap
                ELSE IF mat.m_name # "" THEN Heap(1, textures)
                ELSE Heap(0, textures - (IF mat.m_diffuseTexture # NullPtr THEN 1 ELSE 0))
        named == raw.mtlLibName # "" /\ mat.m_name # ""
    IN  IF named THEN read ELSE HeapAdd(read, Heap(1, 0))

\* P: Model::~Model deletes every Material of the map, and Material::~Material
\* its m_diffuseTexture.
P_Released(materials) ==
    Heap(Cardinality({ n \in DOMAIN materials : materials[n] # NullPtr }),
         Cardinality({ n \in DOMAIN materials :
                           /\ materials[n] # NullPtr
                           /\ materials[n][1].m_diffuseTexture # NullPtr }))

\* P: the material lookup of `for (const auto& meshGroup : rawData.meshGroups)`,
\* from group g on.  m_materials["default"] adds a null entry when the map has
\* no such key.  st = [materials, bound]: the map, and m_material of each Mesh.
RECURSIVE P_BindLoop(_, _, _)
P_BindLoop(raw, g, st) ==
    IF g > Len(raw.meshGroups) THEN st
    ELSE LET group == raw.meshGroups[g]
             found == group.materialName \in DOMAIN st.materials
             materials2 == IF found \/ "default" \in DOMAIN st.materials
                           THEN st.materials
                           ELSE MapPut(st.materials, "default", NullPtr)
             meshMaterial == IF found THEN materials2[group.materialName]
                             ELSE materials2["default"]
         IN  P_BindLoop(raw, g + 1,
                 [materials |-> materials2,
                  bound |-> IF group.faceIndices # <<>>
                            THEN Append(st.bound, meshMaterial)
                            ELSE st.bound])

\* P: the materials part of processData.
P_FinishMaterials(ub) ==
    IF /\ p_status = "reading"
       /\ ~P_LoadRejected(rawData)
       /\ ~(P_ReadsOutOfBounds(rawData) /\ ub.crash)
    THEN LET st == P_BindLoop(rawData, 1,
                       [materials |-> P_LoadedMaterials(rawData, library),
                        bound |-> <<>>])
         IN  /\ p_materials' = st.materials
             /\ p_meshMaterials' = st.bound
             /\ p_heap' = HeapAdd(p_heap, P_LoadedMaterialsNew(rawData, library))
    ELSE UNCHANGED << p_materials, p_meshMaterials, p_heap >>

\* P_OnMtllib that gives the load up.
P_OnMtllibGivesUp(name) ==
    /\ p_status' = "failed"
    /\ UNCHANGED << rawData, p_currentMaterialName, p_meshes, p_minCoords,
                    p_maxCoords, m_localCenter, p_reported >>

\* P: the `mtllib` branch of loadRawData.
P_OnMtllib(name) ==
    /\ rawData' = [rawData EXCEPT !.mtlLibName = name]
    /\ UNCHANGED << p_status, p_currentMaterialName, p_meshes, p_minCoords,
                    p_maxCoords, m_localCenter, p_reported >>

(***************************************************************************)
(* The members that place a Model in the world (the same code in both      *)
(* variants), and draw().                                                  *)
(***************************************************************************)
\* glm::quat as <<w, x, y, z>>; glm::quat(1, 0, 0, 0) is no rotation.
QuatIdentity == <<One, Zero, Zero, Zero>>

\* cos and the square of sin of half of `glm::radians(angle)`, for the angles
\* 0, 120 and 180.
HalfAngleCos(angle) ==
    IF angle = 0 THEN One ELSE IF angle = 120 THEN RDiv(One, ToRat(2)) ELSE Zero

HalfAngleSinSquared(angle) ==
    IF angle = 0 THEN Zero ELSE IF angle = 120 THEN RDiv(ToRat(3), ToRat(4)) ELSE One

\* The square root of a number that has a small one.
RatSqrt(x) == CHOOSE r \in { RDiv(ToRat(n), ToRat(d)) : n \in 0..4, d \in 1..4 } : RMul(r, r) = x

\* glm::angleAxis(glm::radians(angle), glm::normalize(axis)):
\* (cos(a/2), axis / |axis| * sin(a/2)).
GlmAngleAxis(angle, axis) ==
    LET a == ParseVec3(axis)
        lengthSquared == RAdd(RAdd(RMul(a[1], a[1]), RMul(a[2], a[2])), RMul(a[3], a[3]))
        s == RatSqrt(RDiv(HalfAngleSinSquared(angle), lengthSquared))
    IN  <<HalfAngleCos(angle), RMul(a[1], s), RMul(a[2], s), RMul(a[3], s)>>

\* operator* of glm::quat
QuatMul(p, q) ==
    LET M(i, j) == RMul(p[i], q[j])
    IN  <<RSub(RSub(RSub(M(1, 1), M(2, 2)), M(3, 3)), M(4, 4)),
          RSub(RAdd(RAdd(M(1, 2), M(2, 1)), M(3, 4)), M(4, 3)),
          RSub(RAdd(RAdd(M(1, 3), M(3, 1)), M(4, 2)), M(2, 4)),
          RSub(RAdd(RAdd(M(1, 4), M(4, 1)), M(2, 3)), M(3, 2))>>

\* glm::mat4_cast(q)
GlmMat4Cast(q) ==
    LET w == q[1]  x == q[2]  y == q[3]  z == q[4]
        two == ToRat(2)
        Diag(a, b) == RSub(One, RMul(two, RAdd(RMul(a, a), RMul(b, b))))
        Plus(a, b, c, d) == RMul(two, RAdd(RMul(a, b), RMul(c, d)))
        Minus(a, b, c, d) == RMul(two, RSub(RMul(a, b), RMul(c, d)))
    IN  << <<Diag(y, z), Plus(x, y, w, z), Minus(x, z, w, y), Zero>>,
           <<Minus(x, y, w, z), Diag(x, z), Plus(y, z, w, x), Zero>>,
           <<Plus(x, z, w, y), Minus(y, z, w, x), Diag(x, y), Zero>>,
           <<Zero, Zero, Zero, One>> >>

\* mat4 * mat4
Mat4Mul(a, b) ==
    << Mat4MulVec4(a, b[1]), Mat4MulVec4(a, b[2]),
       Mat4MulVec4(a, b[3]), Mat4MulVec4(a, b[4]) >>

\* The members as the initialiser list of the constructor sets them.
InitialPose ==
    [m_currentPosition |-> <<Zero, Zero, Zero>>,
     m_currentRotation |-> QuatIdentity,
     m_currentScale |-> <<One, One, One>>,
     m_modelMatrix |-> Mat4Identity,
     m_viewMatrix |-> Mat4Identity,
     m_projectionMatrix |-> Mat4Identity]

\* Model::updateModelMatrix
updateModelMatrix(pose) ==
    LET translationMatrix == GlmTranslate(Mat4Identity, pose.m_currentPosition)
        rotationMatrix == GlmMat4Cast(pose.m_currentRotation)
        scaleMatrix == GlmScale(Mat4Identity, pose.m_currentScale)
    IN  [pose EXCEPT !.m_modelMatrix =
             Mat4Mul(Mat4Mul(translationMatrix, rotationMatrix), scaleMatrix)]

\* setRotation that turns the model further from where it is.
setRotationCumulative(pose, rot) ==
    updateModelMatrix([pose EXCEPT !.m_currentRotation =
                           QuatMul(GlmAngleAxis(rot.angle, rot.axis), @)])

\* Model::setPosition, setRotation, setScale, setViewMatrix, setProjectionMatrix
setPosition(pose, pos) ==
    updateModelMatrix([pose EXCEPT !.m_currentPosition = ParseVec3(pos)])

setRotation(pose, rot) ==
    updateModelMatrix([pose EXCEPT !.m_currentRotation =
                           GlmAngleAxis(rot.angle, rot.axis)])

setScale(pose, scale) ==
    updateModelMatrix([pose EXCEPT !.m_currentScale = ParseVec3(scale)])

setViewMatrix(pose, view) == [pose EXCEPT !.m_viewMatrix = view]

setProjectionMatrix(pose, proj) == [pose EXCEPT !.m_projectionMatrix = proj]

\* P: Model::getWorldCenter
getWorldCenter(pose, localCenter) == TransformPosition(pose.m_modelMatrix, localCenter)

\* The GL state a draw touches: no texture bound, no draw call issued.
InitialGl == [texture |-> 0, drawCalls |-> <<>>]

\* glDrawElements(GL_TRIANGLES, count, GL_UNSIGNED_INT, offset of `first`),
\* with the texture that is bound when it is issued.
DrawElements(gl, count, first) ==
    [gl EXCEPT !.drawCalls =
         Append(@, [count |-> count, first |-> first, texture |-> gl.texture])]

\* glBindTexture(GL_TEXTURE_2D, id)
BindTexture(gl, id) == [gl EXCEPT !.texture = id]

\* Texture::bind: binds the texture object's id.
TextureBind(gl, texture) == BindTexture(gl, texture.textureID)

\* S_BindPartTexture that leaves the texture unit alone for a part without texture.
S_BindPartTextureIfAny(mesh, materials, gl) ==
    IF /\ mesh.materialName \in DOMAIN materials
       /\ materials[mesh.materialName][1].diffuseTexture # NullPtr
       /\ materials[mesh.materialName][1].diffuseTexture[1].textureID # 0
    THEN TextureBind(gl, materials[mesh.materialName][1].diffuseTexture[1])
    ELSE gl

\* S: the if / else of the loop of Model::draw; Material::bindTexture in the
\* first branch, where diffuseTexture is not null.
S_BindPartTexture(mesh, materials, gl) ==
    IF /\ mesh.materialName \in DOMAIN materials
       /\ materials[mesh.materialName][1].diffuseTexture # NullPtr
       /\ materials[mesh.materialName][1].diffuseTexture[1].textureID # 0
    THEN TextureBind(gl, materials[mesh.materialName][1].diffuseTexture[1])
    ELSE BindTexture(gl, 0)

\* S: the `for (const auto& mesh : m_meshes)` loop of Model::draw, from part i on.
RECURSIVE S_DrawLoop(_, _, _, _)
S_DrawLoop(meshes, i, materials, gl) ==
    IF i > Len(meshes) THEN gl
    ELSE S_DrawLoop(meshes, i + 1, materials,
                    DrawElements(S_BindPartTexture(meshes[i], materials, gl),
                                 meshes[i].indexCount, meshes[i].baseIndex))

\* S_DrawReturnsEarly that looks at the index list only.
S_DrawReturnsEarlyOnEmptyIndices(vao, indices) == indices = <<>>

\* S: `if (m_vao == 0 || m_indices.empty())` of Model::draw
S_DrawReturnsEarly(vao, indices) == vao = 0 \/ indices = <<>>

\* S: Model::draw
S_Draw ==
    IF S_DrawReturnsEarly(m_vao, m_indices)
    THEN UNCHANGED << s_pose, s_gl >>
    ELSE /\ s_pose' = updateModelMatrix(s_pose)
         /\ s_gl' = S_DrawLoop(s_meshes, 1, s_materials, s_gl)

\* P: Material::use
P_MaterialUse(gl, material) ==
    IF material.m_diffuseTexture # NullPtr
    THEN TextureBind(gl, material.m_diffuseTexture[1])
    ELSE BindTexture(gl, 0)

\* P: Mesh::setupBuffers: the id of the VAO it generates, 0 when it returns early.
P_MeshVao(mesh) == IF mesh.vertices = <<>> \/ mesh.indices = <<>> THEN 0 ELSE 1

\* P: Mesh::draw; material is the Mesh's m_material.
P_MeshDraw(mesh, material, gl) ==
    IF P_MeshVao(mesh) = 0 \/ mesh.indices = <<>> THEN gl
    ELSE DrawElements(IF material # NullPtr
                      THEN P_MaterialUse(gl, material[1])
                      ELSE BindTexture(gl, 0),
                      Len(mesh.indices), 0)

\* P: `for (Mesh* mesh : m_meshes)` of Model::draw, from Mesh i on.
RECURSIVE P_DrawLoop(_, _, _, _)
P_DrawLoop(meshes, i, meshMaterials, gl) ==
    IF i > Len(meshes) THEN gl
    ELSE P_DrawLoop(meshes, i + 1, meshMaterials,
                    P_MeshDraw(meshes[i], meshMaterials[i], gl))

\* P: Model::draw
P_Draw ==
    IF p_meshes = <<>>
    THEN UNCHANGED << p_pose, p_gl >>
    ELSE /\ p_pose' = updateModelMatrix(p_pose)
         /\ p_gl' = P_DrawLoop(p_meshes, 1, p_meshMaterials, p_gl)

(***************************************************************************)
(* The state after the constructors have opened the file, and the steps.   *)
(***************************************************************************)
\* A glm::vec3 member the constructor's initialiser list does not set.
Unset == <<NaN, NaN, NaN>>

Line(type, arg) == [type |-> type, arg |-> arg]

Init ==
    /\ file = <<>>
    /\ s_status = "reading"
    /\ m_tempPositions = <<>>
    /\ m_tempTexCoords = <<>>
    /\ m_vertices = <<>>
    /\ m_indices = <<>>
    /\ s_meshes = <<>>
    /\ s_currentMaterialName = "default"
    /\ uniqueVertices = EmptyMap
    /\ s_minCoords = Unset
    /\ s_maxCoords = Unset
    /\ m_vao = 0
    /\ s_reported = FALSE
    /\ p_status = "reading"
    /\ rawData = [positions |-> <<>>, texCoords |-> <<>>, faces |-> <<>>,
                  meshGroups |-> << MeshGroup("default", <<>>) >>,
                  mtlLibName |-> ""]
    /\ p_currentMaterialName = "default"
    /\ p_meshes = <<>>
    /\ p_minCoords = Unset
    /\ p_maxCoords = Unset
    /\ m_localCenter = Unset
    /\ p_reported = FALSE
    /\ library = NoLibrary
    /\ s_materials = EmptyMaterials
    /\ p_materials = EmptyMaterials
    /\ p_meshMaterials = <<>>
    /\ s_heap = EmptyHeap
    /\ p_heap = EmptyHeap
    /\ calls = <<>>
    /\ s_pose = InitialPose
    /\ p_pose = InitialPose
    /\ s_gl = InitialGl
    /\ p_gl = InitialGl

\* The state on entry to the constructors, before the file is opened: P has
\* not yet pushed its `default` group.
InitUnopened ==
    /\ file = <<>>
    /\ s_status = "opening"
    /\ m_tempPositions = <<>>
    /\ m_tempTexCoords = <<>>
    /\ m_vertices = <<>>
    /\ m_indices = <<>>
    /\ s_meshes = <<>>
    /\ s_currentMaterialName = "default"
    /\ uniqueVertices = EmptyMap
    /\ s_minCoords = Unset
    /\ s_maxCoords = Unset
    /\ m_vao = 0
    /\ s_reported = FALSE
    /\ p_status = "opening"
    /\ rawData = [positions |-> <<>>, texCoords |-> <<>>, faces |-> <<>>,
                  meshGroups |-> <<>>, mtlLibName |-> ""]
    /\ p_currentMaterialName = "default"
    /\ p_meshes = <<>>
    /\ p_minCoords = Unset
    /\ p_maxCoords = Unset
    /\ m_localCenter = Unset
    /\ p_reported = FALSE
    /\ library = NoLibrary
    /\ s_materials = EmptyMaterials
    /\ p_materials = EmptyMaterials
    /\ p_meshMaterials = <<>>
    /\ s_heap = EmptyHeap
    /\ p_heap = EmptyHeap
    /\ calls = <<>>
    /\ s_pose = InitialPose
    /\ p_pose = InitialPose
    /\ s_gl = InitialGl
    /\ p_gl = InitialGl

\* S_OpenFails that goes on into the read loop.
S_OpenFailsGoesOn ==
    /\ s_status' = "reading"
    /\ UNCHANGED << m_tempPositions, m_tempTexCoords, m_vertices, m_indices,
                    s_meshes, s_currentMaterialName, uniqueVertices, s_minCoords,
                    s_maxCoords, m_vao, s_reported >>

\* S: `if (!file.is_open()) { ... return false; }`, then the error path of the
\* constructor.
S_OpenFails ==
    /\ s_status' = "failed"
    /\ UNCHANGED << m_tempPositions, m_tempTexCoords, m_vertices, m_indices,
                    s_meshes, s_currentMaterialName, uniqueVertices, s_minCoords,
                    s_maxCoords, m_vao, s_reported >>

\* S: the file is open; the containers are cleared.
S_Opens ==
    /\ s_status' = "reading"
    /\ m_tempPositions' = <<>>
    /\ m_tempTexCoords' = <<>>
    /\ m_vertices' = <<>>
    /\ m_indices' = <<>>
    /\ s_meshes' = <<>>
    /\ UNCHANGED << s_currentMaterialName, uniqueVertices, s_minCoords,
                    s_maxCoords, m_vao, s_reported >>

\* P: `if (!file.is_open()) { ... return rawData; }`, then the constructor's
\* `if (rawData.positions.empty() || rawData.faces.empty())`.
P_OpenFails ==
    /\ P_LoadRejected(rawData)
    /\ p_status' = "failed"
    /\ UNCHANGED << rawData, p_currentMaterialName, p_meshes, p_minCoords,
                    p_maxCoords, m_localCenter, p_reported >>

\* P: the file is open; `rawData.meshGroups.push_back({ currentMaterialName, {} })`.
P_Opens ==
    /\ p_status' = "reading"
    /\ rawData' = [rawData EXCEPT
                      !.meshGroups = Append(@, MeshGroup(p_currentMaterialName, <<>>))]
    /\ UNCHANGED << p_currentMaterialName, p_meshes, p_minCoords,
                    p_maxCoords, m_localCenter, p_reported >>

Opening == s_status = "opening" /\ p_status = "opening"

\* std::ifstream opens the file, or does not.
FileOpens ==
    /\ Opening
    /\ S_Opens
    /\ P_Opens
    /\ UNCHANGED << file, mVars, rVars >>

FileOpenFails ==
    /\ Opening
    /\ S_OpenFails
    /\ P_OpenFails
    /\ UNCHANGED << file, mVars, rVars >>

\* Some variant is still in its `while (std::getline(file, line))` loop.
Reading == s_status = "reading" \/ p_status = "reading"

\* A variant that has left its loop takes no further part.
S_Step(A) == IF s_status = "reading" THEN A ELSE UNCHANGED sVars

P_Step(A) == IF p_status = "reading" THEN A ELSE UNCHANGED pVars

\* getline yields one more line (of a file of at most max lines).
NextLine(ln, max) ==
    /\ Reading
    /\ Len(file) < max
    /\ file' = Append(file, ln)

OnV(positions, max) ==
    \E pos \in positions :
        /\ NextLine(Line("v", pos), max)
        /\ S_Step(S_OnV(pos))
        /\ P_Step(P_OnV(pos))
        /\ UNCHANGED << mVars, rVars >>

OnVt(texCoords, max) ==
    \E tex \in texCoords :
        /\ NextLine(Line("vt", tex), max)
        /\ S_Step(S_OnVt(tex))
        /\ P_Step(P_OnVt(tex))
        /\ UNCHANGED << mVars, rVars >>

OnF(faces, max) ==
    \E refs \in faces :
        /\ NextLine(Line("f", refs), max)
        /\ S_Step(S_OnF(refs))
        /\ P_Step(P_OnF(refs))
        /\ UNCHANGED << mVars, rVars >>

OnUsemtl(names, max) ==
    \E name \in names :
        /\ NextLine(Line("usemtl", name), max)
        /\ S_Step(S_OnUsemtl(name))
        /\ P_Step(P_OnUsemtl(name))
        /\ UNCHANGED << mVars, rVars >>

\* A `mtllib` line.  The first one brings the library file into view; S reads
\* it at once, P notes its name.
OnMtllib(libs, max) ==
    \E lib \in (IF library.named THEN {library} ELSE libs) :
        /\ NextLine(Line("mtllib", "lib.mtl"), max)
        /\ library' = lib
        /\ s_materials' = IF s_status = "reading"
                          THEN S_loadMaterials(lib, s_materials)
                          ELSE s_materials
        /\ UNCHANGED sVars
        /\ s_heap' = IF s_status = "reading"
                     THEN HeapAdd(s_heap, S_loadMaterialsNew(lib, s_materials))
                     ELSE s_heap
        /\ P_Step(P_OnMtllib("lib.mtl"))
        /\ UNCHANGED << p_materials, p_meshMaterials, p_heap, rVars >>

\* getline fails: the file has ended.
EndOfFile ==
    /\ Reading
    /\ UNCHANGED file
    /\ \E ub \in UBOutcomes :
        /\ S_Step(S_Finish)
        /\ P_Step(P_Finish(ub))
        /\ P_FinishMaterials(ub)
    /\ s_pose' = IF s_status = "reading" THEN updateModelMatrix(s_pose) ELSE s_pose
    /\ p_pose' = IF p_status = "reading" /\ ~P_LoadRejected(rawData)
                 THEN updateModelMatrix(p_pose)
                 ELSE p_pose
    /\ UNCHANGED << library, s_materials, s_heap, calls, s_gl, p_gl >>

\* The constructor of a variant has returned.
S_Constructed == s_status \in {"loaded", "failed"}

P_Constructed == p_status \in {"loaded", "failed"}

Call(name, arg) == [name |-> name, arg |-> arg]

\* One more call on the Models (of at most max calls), once no constructor runs.
NextCall(call, max) ==
    /\ ~Reading
    /\ S_Constructed \/ P_Constructed
    /\ Len(calls) < max
    /\ calls' = Append(calls, call)
    /\ UNCHANGED << file, sVars, pVars, mVars >>

SetPosition(values, max) ==
    \E pos \in values :
        /\ NextCall(Call("setPosition", pos), max)
        /\ s_pose' = IF S_Constructed THEN setPosition(s_pose, pos) ELSE s_pose
        /\ p_pose' = IF P_Constructed THEN setPosition(p_pose, pos) ELSE p_pose
        /\ UNCHANGED << s_gl, p_gl >>

SetRotation(values, max) ==
    \E rot \in values :
        /\ NextCall(Call("setRotation", rot), max)
        /\ s_pose' = IF S_Constructed THEN setRotation(s_pose, rot) ELSE s_pose
        /\ p_pose' = IF P_Constructed THEN setRotation(p_pose, rot) ELSE p_pose
        /\ UNCHANGED << s_gl, p_gl >>

SetScale(values, max) ==
    \E scale \in values :
        /\ NextCall(Call("setScale", scale), max)
        /\ s_pose' = IF S_Constructed THEN setScale(s_pose, scale) ELSE s_pose
        /\ p_pose' = IF P_Constructed THEN setScale(p_pose, scale) ELSE p_pose
        /\ UNCHANGED << s_gl, p_gl >>

SetViewMatrix(values, max) ==
    \E view \in values :
        /\ NextCall(Call("setViewMatrix", view), max)
        /\ s_pose' = IF S_Constructed THEN setViewMatrix(s_pose, view) ELSE s_pose
        /\ p_pose' = IF P_Constructed THEN setViewMatrix(p_pose, view) ELSE p_pose
        /\ UNCHANGED << s_gl, p_gl >>

SetProjectionMatrix(values, max) ==
    \E proj \in values :
        /\ NextCall(Call("setProjectionMatrix", proj), max)
        /\ s_pose' = IF S_Constructed THEN setProjectionMatrix(s_pose, proj) ELSE s_pose
        /\ p_pose' = IF P_Constructed THEN setProjectionMatrix(p_pose, proj) ELSE p_pose
        /\ UNCHANGED << s_gl, p_gl >>

Draw(max) ==
    /\ NextCall(Call("draw", <<>>), max)
    /\ IF S_Constructed THEN S_Draw ELSE UNCHANGED << s_pose, s_gl >>
    /\ IF P_Constructed THEN P_Draw ELSE UNCHANGED << p_pose, p_gl >>

\* Files over the geometry alphabet.
ReadV == OnV(PosValues, MaxLines)

ReadVt == OnVt(TexValues, MaxLines)

ReadF == OnF(FaceLines, MaxLines)

ReadUsemtl == OnUsemtl(MaterialNames, MaxLines)

Next == ReadV \/ ReadVt \/ ReadF \/ ReadUsemtl \/ EndOfFile

Spec == Init /\ [][Next]_vars

\* Files over the material-group alphabet.
GroupReadV == OnV(GroupPosValues, MaxGroupLines)

GroupReadF == OnF(GroupFaceLines, MaxGroupLines)

GroupReadUsemtl == OnUsemtl(GroupMaterialNames, MaxGroupLines)

NextGroups == GroupReadV \/ GroupReadF \/ GroupReadUsemtl \/ EndOfFile

SpecGroups == Init /\ [][NextGroups]_vars

\* Files over the cube-corner alphabet.
CornerReadV == OnV(CornerPosValues, MaxCornerLines)

CornerReadF == OnF(CornerFaceLines, MaxCornerLines)

CornerReadUsemtl == OnUsemtl(MaterialNames, MaxCornerLines)

NextCorners == CornerReadV \/ CornerReadF \/ CornerReadUsemtl \/ EndOfFile

SpecCorners == Init /\ [][NextCorners]_vars

\* Files over the unparsable-ref alphabet, and files that cannot be opened.
FaultReadV == OnV(PosValues, MaxFaultLines)

FaultReadF == OnF(FaultFaceLines, MaxFaultLines)

NextFaults == FileOpens \/ FileOpenFails \/ FaultReadV \/ FaultReadF \/ EndOfFile

SpecFaults == InitUnopened /\ [][NextFaults]_vars

\* Files over the material alphabet: they start with the lines `v 0 0 0` and
\* `v 2 4 1`, and go on with `mtllib`, `usemtl A` and `f 1 2 1`.
\* InitMaterials is the state in which the two `v` lines have been read.
InitMaterials ==
    /\ file = << Line("v", PosA), Line("v", PosB) >>
    /\ s_status = "reading"
    /\ m_tempPositions = << ParseVec3(PosA), ParseVec3(PosB) >>
    /\ m_tempTexCoords = <<>>
    /\ m_vertices = <<>>
    /\ m_indices = <<>>
    /\ s_meshes = <<>>
    /\ s_currentMaterialName = "default"
    /\ uniqueVertices = EmptyMap
    /\ s_minCoords = Unset
    /\ s_maxCoords = Unset
    /\ m_vao = 0
    /\ s_reported = FALSE
    /\ p_status = "reading"
    /\ rawData = [positions |-> << ParseVec3(PosA), ParseVec3(PosB) >>,
                  texCoords |-> <<>>, faces |-> <<>>,
                  meshGroups |-> << MeshGroup("default", <<>>) >>,
                  mtlLibName |-> ""]
    /\ p_currentMaterialName = "default"
    /\ p_meshes = <<>>
    /\ p_minCoords = Unset
    /\ p_maxCoords = Unset
    /\ m_localCenter = Unset
    /\ p_reported = FALSE
    /\ library = NoLibrary
    /\ s_materials = EmptyMaterials
    /\ p_materials = EmptyMaterials
    /\ p_meshMaterials = <<>>
    /\ s_heap = EmptyHeap
    /\ p_heap = EmptyHeap
    /\ calls = <<>>
    /\ s_pose = InitialPose
    /\ p_pose = InitialPose
    /\ s_gl = InitialGl
    /\ p_gl = InitialGl

MaterialReadMtllib == OnMtllib(Libraries, MaxMaterialLines)

MaterialReadF == OnF({FaceTriangle}, MaxMaterialLines)

MaterialReadUsemtl == OnUsemtl(MaterialNames, MaxMaterialLines)

NextMaterials == MaterialReadMtllib \/ MaterialReadF \/ MaterialReadUsemtl \/ EndOfFile

SpecMaterials == InitMaterials /\ [][NextMaterials]_vars

\* Model::~Model of S and of P, once both constructors have returned.
S_Destroy ==
    /\ s_status' = "destroyed"
    /\ s_materials' = EmptyMaterials
    /\ s_heap' = HeapSub(s_heap, S_Released(s_materials))
    /\ UNCHANGED << m_tempPositions, m_tempTexCoords, m_vertices, m_indices,
                    s_meshes, s_currentMaterialName, uniqueVertices, s_minCoords,
                    s_maxCoords, m_vao, s_reported >>

P_Destroy ==
    /\ p_status' = "destroyed"
    /\ p_meshes' = <<>>
    /\ p_meshMaterials' = <<>>
    /\ p_materials' = EmptyMaterials
    /\ p_heap' = HeapSub(p_heap, P_Released(p_materials))
    /\ UNCHANGED << rawData, p_currentMaterialName, p_minCoords, p_maxCoords,
                    m_localCenter, p_reported >>

DestroyModel ==
    /\ s_status \in {"loaded", "failed"}
    /\ p_status \in {"loaded", "failed"}
    /\ S_Destroy
    /\ P_Destroy
    /\ UNCHANGED << file, library, rVars >>

\* The material files again, with the Models destroyed in the end.
NextOwnership ==
    MaterialReadMtllib \/ MaterialReadF \/ MaterialReadUsemtl \/ EndOfFile \/ DestroyModel

SpecOwnership == InitMaterials /\ [][NextOwnership]_vars

(***************************************************************************)
(* What the file says, read off `file` without the loaders.                *)
(***************************************************************************)
IsV(ln) == ln.type = "v"

IsF(ln) == ln.type = "f"

IsTriangleLine(ln) == ln.type = "f" /\ Len(ln.arg) = 3

\* The `v` lines, the `f` lines and the `f` lines with exactly three refs.
VLines == SelectSeq(file, IsV)

FLines == SelectSeq(file, IsF)

TriangleLines == SelectSeq(file, IsTriangleLine)

\* The positions of all `v` lines of the file.
FilePositions == [i \in 1..Len(VLines) |-> ParseVec3(VLines[i].arg)]

\* A valid triangle: exactly three refs, each position index in 1..#positions.
IsValidTriangle(ln) ==
    /\ IsTriangleLine(ln)
    /\ \A j \in 1..3 : ln.arg[j].p >= 1 /\ ln.arg[j].p <= Len(VLines)

ValidTriangleCount == Len(SelectSeq(file, IsValidTriangle))

SetMin(S) == CHOOSE x \in S : \A y \in S : ~RLt(y, x)

SetMax(S) == CHOOSE x \in S : \A y \in S : ~RLt(x, y)

AxisValues(axis) == { FilePositions[i][axis] : i \in 1..Len(FilePositions) }

FileMin(axis) == SetMin(AxisValues(axis))

FileMax(axis) == SetMax(AxisValues(axis))

FileMaxExtent ==
    SetMax({ RSub(FileMax(axis), FileMin(axis)) : axis \in 1..3 })

\* The bounding box of the `v` lines has zero extent on every axis.
ZeroExtent == VLines # <<>> /\ FileMaxExtent = Zero

NonDegenerate == VLines # <<>> /\ FileMaxExtent # Zero

\* scale * (r - center), center = (min+max)/2, scale = 2 / largest extent.
ExpectedCoord(r, axis) ==
    RMul(RDiv(ToRat(2), FileMaxExtent),
         RSub(r[axis], RDiv(RAdd(FileMin(axis), FileMax(axis)), ToRat(2))))

ExpectedPosition(r) == << ExpectedCoord(r, 1), ExpectedCoord(r, 2), ExpectedCoord(r, 3) >>

S_Loaded == s_status = "loaded"

P_Loaded == p_status = "loaded"

\* S, loaded: the vertex that entry j of the k-th `f` line was given
\* (every `f` line of a load that succeeds appends three indices).
S_VertexOfRef(k, j) == m_vertices[m_indices[3 * (k - 1) + j] + 1]

\* P, loaded: Mesh i is built from the i-th group that owns a face, face q of
\* that group is the (faceIndices[q]+1)-th three-ref `f` line of the file.
P_GroupsWithFaces == SelectSeq(rawData.meshGroups, LAMBDA g : g.faceIndices # <<>>)

P_LineOfFace(i, q) == TriangleLines[P_GroupsWithFaces[i].faceIndices[q] + 1]

P_VertexOfRef(i, q, j) == p_meshes[i].vertices[p_meshes[i].indices[3 * (q - 1) + j] + 1]

\* Float equality of two vertices in all five components.
SameVertex(a, b) ==
    /\ \A c \in 1..3 : ~RNeq(a.position[c], b.position[c])
    /\ \A c \in 1..2 : ~RNeq(a.texCoord[c], b.texCoord[c])

NoTwoEqual(vertices) ==
    \A a, b \in 1..Len(vertices) : a # b => ~SameVertex(vertices[a], vertices[b])

IndicesInRange(indices, vertices) ==
    \A i \in 1..Len(indices) : indices[i] >= 0 /\ indices[i] < Len(vertices)

(***************************************************************************)
(* The claims.                                                             *)
(***************************************************************************)
\* C1: after a successful load no vertex buffer (the shared buffer of S, the
\* buffer of each Mesh of P) holds two entries equal in all five components.
C1_NoDuplicateVertices ==
    /\ S_Loaded => NoTwoEqual(m_vertices)
    /\ P_Loaded => \A i \in 1..Len(p_meshes) : NoTwoEqual(p_meshes[i].vertices)

\* C2: after a successful load every entry of an index buffer is at least 0
\* and less than the number of vertices of the vertex buffer it refers to.
C2_IndicesInRange ==
    /\ S_Loaded => IndicesInRange(m_indices, m_vertices)
    /\ P_Loaded => \A i \in 1..Len(p_meshes) :
                       IndicesInRange(p_meshes[i].indices, p_meshes[i].vertices)

\* C2 witness: both variants have loaded a file and hold index buffers that
\* refer to more than one vertex.
C2_Witness ==
    /\ S_Loaded /\ Len(m_indices) >= 3 /\ Len(m_vertices) >= 2
    /\ P_Loaded /\ p_meshes # <<>> /\ Len(p_meshes[1].vertices) >= 2

RECURSIVE SumIndexCounts(_, _)
SumIndexCounts(meshes, i) ==
    IF i > Len(meshes) THEN 0
    ELSE Len(meshes[i].indices) + SumIndexCounts(meshes, i + 1)

\* C3: after a successful load the total number of indices is 3 times the
\* number of valid triangles of the file.
C3_IndexCountIsThreeTimesValidTriangles ==
    /\ S_Loaded => Len(m_indices) = 3 * ValidTriangleCount
    /\ P_Loaded => SumIndexCounts(p_meshes, 1) = 3 * ValidTriangleCount

\* The material name in force at each `f` line of lines[i..], `current`
\* being the name in force before line i.
RECURSIVE NamesAtFaces(_, _, _)
NamesAtFaces(lines, i, current) ==
    IF i > Len(lines) THEN <<>>
    ELSE IF lines[i].type = "usemtl" THEN NamesAtFaces(lines, i + 1, lines[i].arg)
    ELSE IF lines[i].type = "f" THEN <<current>> \o NamesAtFaces(lines, i + 1, current)
    ELSE NamesAtFaces(lines, i + 1, current)

\* A sequence without its consecutive repetitions.
RECURSIVE Collapse(_)
Collapse(seq) ==
    IF Len(seq) <= 1 THEN seq
    ELSE IF seq[1] = seq[2] THEN Collapse(Tail(seq))
    ELSE <<seq[1]>> \o Collapse(Tail(seq))

\* C4: in S after a successful load the MeshParts partition the index stream:
\* the first starts at 0, each later one starts where the previous one ends,
\* the last ends at indices.length, and the parts are in the order in which
\* their first face was met.
C4_PartsPartitionIndices ==
    S_Loaded =>
        /\ s_meshes = <<>> => m_indices = <<>>
        /\ s_meshes # <<>> =>
              /\ s_meshes[1].baseIndex = 0
              /\ \A i \in 2..Len(s_meshes) :
                     s_meshes[i].baseIndex =
                         s_meshes[i - 1].baseIndex + s_meshes[i - 1].indexCount
              /\ s_meshes[Len(s_meshes)].baseIndex
                     + s_meshes[Len(s_meshes)].indexCount = Len(m_indices)
        /\ [i \in 1..Len(s_meshes) |-> s_meshes[i].materialName]
               = Collapse(NamesAtFaces(file, 1, "default"))

\* C4 witness: S has loaded a file whose faces fall into at least two parts.
C4_Witness == S_Loaded /\ Len(s_meshes) >= 2 /\ Len(m_indices) >= 6

\* The line a step has just read.
LastLine == file[Len(file)]

\* C5: a face line whose number of refs is not 3 contributes no triangle and
\* does not abort the parse: the variant that reads it keeps reading, and its
\* indices (S) or faces (P) are as before the line.
C5_WrongRefCountFaceIsSkipped ==
    [][ (Len(file') = Len(file) + 1 /\ IsF(LastLine') /\ Len(LastLine'.arg) # 3) =>
            /\ s_status = "reading" =>
                   s_status' = "reading" /\ m_indices' = m_indices
            /\ p_status = "reading" =>
                   p_status' = "reading" /\ rawData'.faces = rawData.faces
      ]_vars

\* A three-ref face line with a position index that is 0 or above the number
\* of positions read so far.
HasBadPositionIndex(ln, npos) ==
    /\ IsTriangleLine(ln)
    /\ \E j \in 1..3 : ln.arg[j].p < 1 \/ ln.arg[j].p > npos

\* C6: a face ref whose position index is out of range makes only that face be
\* skipped: the load is not aborted, nothing is accumulated for the face, and
\* no position is ever read out of bounds.
C6_BadPositionIndexFaceIsSkipped ==
    [][ /\ (Len(file') = Len(file) + 1
              /\ HasBadPositionIndex(LastLine', Len(VLines))) =>
            /\ s_status = "reading" =>
                   /\ s_status' = "reading"
                   /\ m_indices' = m_indices
                   /\ m_vertices' = m_vertices
            /\ p_status = "reading" =>
                   p_status' = "reading" /\ rawData'.faces = rawData.faces
        /\ (p_status = "reading" /\ p_status' # "reading") =>
               ~P_ReadsOutOfBounds(rawData)
      ]_vars

ZeroTex == <<Zero, Zero>>

HasNoTexture(ref) == ref.t = NoTex \/ ref.t = 0

\* C7: a face ref without texture index, or with texture index 0, yields a
\* vertex whose texCoord is (0,0), however many `vt` lines the file has.
C7_NoTextureIndexGivesZeroTexCoord ==
    /\ S_Loaded =>
           \A k \in 1..Len(FLines) : \A j \in 1..3 :
               HasNoTexture(FLines[k].arg[j]) => S_VertexOfRef(k, j).texCoord = ZeroTex
    /\ P_Loaded =>
           \A i \in 1..Len(p_meshes) :
               \A q \in 1..Len(P_GroupsWithFaces[i].faceIndices) : \A j \in 1..3 :
                   HasNoTexture(P_LineOfFace(i, q).arg[j]) =>
                       P_VertexOfRef(i, q, j).texCoord = ZeroTex

\* C8: when the bounding box of the raw positions has zero extent on every
\* axis the load fails: it is not reported as successful, no buffers are
\* created and no mesh is produced.
C8_ZeroExtentFailsTheLoad ==
    ZeroExtent =>
        /\ s_status # "loaded" /\ ~s_reported /\ m_vao = 0
        /\ p_status # "loaded" /\ ~p_reported /\ p_meshes = <<>>

\* C9: when the file has no `v` line the load is a fatal failure: once the
\* constructor is over it has taken its error path, there are no GPU buffers
\* and no meshes, and the model is not reported as loaded.
C9_NoPositionsFailsTheLoad ==
    VLines = <<>> =>
        /\ s_status # "reading" =>
               s_status = "failed" /\ m_vao = 0 /\ ~s_reported
        /\ p_status # "reading" =>
               p_status = "failed" /\ p_meshes = <<>> /\ ~p_reported

\* C10: for non-degenerate input every stored vertex position is
\* scale * (rawPosition - center), with min and max taken over all `v` lines,
\* center = (min+max)/2 and scale = 2 / largest extent.
C10_PositionsCentredThenScaled ==
    NonDegenerate =>
        /\ S_Loaded =>
               \A k \in 1..Len(FLines) : \A j \in 1..3 :
                   S_VertexOfRef(k, j).position =
                       ExpectedPosition(FilePositions[FLines[k].arg[j].p])
        /\ P_Loaded =>
               \A i \in 1..Len(p_meshes) :
                   \A q \in 1..Len(P_GroupsWithFaces[i].faceIndices) : \A j \in 1..3 :
                       LET ref == P_LineOfFace(i, q).arg[j]
                       IN  (ref.p >= 1 /\ ref.p <= Len(FilePositions)) =>
                               P_VertexOfRef(i, q, j).position =
                                   ExpectedPosition(FilePositions[ref.p])

\* C10 witness: both variants have loaded a non-degenerate file in which a
\* `v` line is referenced by no face.
C10_Witness ==
    /\ NonDegenerate /\ S_Loaded /\ P_Loaded
    /\ m_vertices # <<>> /\ p_meshes # <<>>
    /\ \E n \in 1..Len(VLines) :
           \A k \in 1..Len(FLines) : \A j \in 1..Len(FLines[k].arg) :
               FLines[k].arg[j].p # n

\* The positions of all output vertices of a variant.
S_OutputPositions == { m_vertices[i].position : i \in 1..Len(m_vertices) }

P_OutputPositions ==
    UNION { { p_meshes[i].vertices[n].position : n \in 1..Len(p_meshes[i].vertices) } :
            i \in 1..Len(p_meshes) }

AxisMin(positions, axis) == SetMin({ q[axis] : q \in positions })

AxisMax(positions, axis) == SetMax({ q[axis] : q \in positions })

\* Every axis has extent at most 2.
ExtentAtMostTwo(positions) ==
    \A axis \in 1..3 :
        ~RLt(ToRat(2), RSub(AxisMax(positions, axis), AxisMin(positions, axis)))

\* The centre (min + max) / 2 of the bounding box is the origin.
CentredAtOrigin(positions) ==
    \A axis \in 1..3 :
        RAdd(AxisMin(positions, axis), AxisMax(positions, axis)) = Zero

\* C11: after a successful load of a non-degenerate file the output vertices
\* have extent at most 2 on each axis and the centre of their bounding box is
\* the origin, also when some `v` line is referenced by no face.
C11_OutputBoxCentredExtentTwo ==
    NonDegenerate =>
        /\ (S_Loaded /\ m_vertices # <<>>) =>
               ExtentAtMostTwo(S_OutputPositions) /\ CentredAtOrigin(S_OutputPositions)
        /\ (P_Loaded /\ p_meshes # <<>>) =>
               ExtentAtMostTwo(P_OutputPositions) /\ CentredAtOrigin(P_OutputPositions)

\* The texCoord a ref stands for: that of its `vt` line, (0,0) when the index
\* is absent, 0 or names no `vt` line.
FileTexCoords == SelectSeq(file, LAMBDA ln : ln.type = "vt")

ExpectedTexCoord(ref) ==
    IF ref.t >= 1 /\ ref.t <= Len(FileTexCoords)
    THEN ParseVec2(FileTexCoords[ref.t].arg)
    ELSE ZeroTex

ValidTriangles == SelectSeq(file, IsValidTriangle)

\* The valid triangles of the group that Mesh i was built from.
RECURSIVE NamesAtTriangleLines(_, _, _)
NamesAtTriangleLines(lines, i, current) ==
    IF i > Len(lines) THEN <<>>
    ELSE IF lines[i].type = "usemtl"
         THEN NamesAtTriangleLines(lines, i + 1, lines[i].arg)
    ELSE IF IsTriangleLine(lines[i])
         THEN <<current>> \o NamesAtTriangleLines(lines, i + 1, current)
    ELSE NamesAtTriangleLines(lines, i + 1, current)

ExpectedVertex(ref) ==
    Vertex(ExpectedPosition(FilePositions[ref.p]), ExpectedTexCoord(ref))

\* C12: index order reproduces face winding order: the vertex at
\* indices[3k + j] of the buffer of the k-th accepted face has the transformed
\* position and the texCoord of the j-th ref of that face.
C12_IndexOrderIsWindingOrder ==
    NonDegenerate =>
        /\ S_Loaded =>
               /\ Len(m_indices) = 3 * Len(ValidTriangles)
               /\ \A k \in 1..Len(ValidTriangles) : \A j \in 1..3 :
                      m_vertices[m_indices[3 * (k - 1) + j] + 1]
                          = ExpectedVertex(ValidTriangles[k].arg[j])
        /\ P_Loaded =>
               \A i \in 1..Len(p_meshes) :
                   \A q \in 1..Len(P_GroupsWithFaces[i].faceIndices) : \A j \in 1..3 :
                       IsValidTriangle(P_LineOfFace(i, q)) =>
                           LET v == P_VertexOfRef(i, q, j)
                           IN  [position |-> v.position, texCoord |-> v.texCoord]
                                   = ExpectedVertex(P_LineOfFace(i, q).arg[j])

\* C13: every accepted triangle is in the MeshPart (S) or the mesh group (P)
\* named by the most recent `usemtl` line before its face line, `default`
\* when there is none.
C13_TriangleGoesToCurrentMaterial ==
    /\ S_Loaded =>
           \A k \in 1..Len(FLines) :
               \E i \in 1..Len(s_meshes) :
                   /\ s_meshes[i].baseIndex <= 3 * (k - 1)
                   /\ 3 * k <= s_meshes[i].baseIndex + s_meshes[i].indexCount
                   /\ s_meshes[i].materialName = NamesAtFaces(file, 1, "default")[k]
    /\ P_Loaded =>
           \A i \in 1..Len(p_meshes) :
               \A q \in 1..Len(P_GroupsWithFaces[i].faceIndices) :
                   p_meshes[i].materialName =
                       NamesAtTriangleLines(file, 1, "default")
                           [P_GroupsWithFaces[i].faceIndices[q] + 1]

\* C13 witness: `usemtl A`, a face, `usemtl B`, a face: two parts named A and
\* B, the second starting where the first ends, and two meshes named A and B.
C13_Witness ==
    /\ S_Loaded /\ Len(s_meshes) = 2
    /\ s_meshes[1].materialName = "A" /\ s_meshes[2].materialName = "B"
    /\ s_meshes[2].baseIndex = s_meshes[1].indexCount
    /\ P_Loaded /\ Len(p_meshes) = 2
    /\ p_meshes[1].materialName = "A" /\ p_meshes[2].materialName = "B"

\* The number of `v` lines among the first n lines of the file.
VLinesBefore(n) == Len(SelectSeq(SubSeq(file, 1, n), IsV))

\* The first face (an `f` line of three refs) comes before every `usemtl` line.
NoUsemtlBeforeFirstFace ==
    \E i \in 1..Len(file) :
        /\ IsTriangleLine(file[i])
        /\ \A j \in 1..(i - 1) : ~IsTriangleLine(file[j]) /\ file[j].type # "usemtl"

\* A file of `v` lines and one `f` line: three refs without texture index that
\* name three `v` lines before the face line, of three different coordinates.
OnlyPositionsAndOneTriangle ==
    /\ \A i \in 1..Len(file) : file[i].type \in {"v", "f"}
    /\ Len(FLines) = 1
    /\ \E i \in 1..Len(file) :
           /\ IsTriangleLine(file[i])
           /\ \A j \in 1..3 :
                  /\ file[i].arg[j].t = NoTex
                  /\ file[i].arg[j].p >= 1
                  /\ file[i].arg[j].p <= VLinesBefore(i - 1)
           /\ \A j, n \in 1..3 :
                  j # n => FilePositions[file[i].arg[j].p] # FilePositions[file[i].arg[n].p]

AllTexCoordsZero(vertices) ==
    \A i \in 1..Len(vertices) : vertices[i].texCoord = ZeroTex

\* C14: when no `usemtl` line precedes the first face, the part of that face
\* is named `default`; a file of `v` lines and one three-ref face without
\* texture indices loads into exactly one part named `default` with 3
\* vertices, 3 indices and texCoord (0,0) on every vertex.
C14_DefaultPartOfASingleTriangle ==
    /\ (NoUsemtlBeforeFirstFace /\ S_Loaded) =>
           s_meshes # <<>> /\ s_meshes[1].materialName = "default"
    /\ (NoUsemtlBeforeFirstFace /\ P_Loaded) =>
           p_meshes # <<>> /\ p_meshes[1].materialName = "default"
    /\ (OnlyPositionsAndOneTriangle /\ s_status # "reading") =>
           /\ S_Loaded
           /\ s_meshes = << MeshPart(0, 3, "default") >>
           /\ Len(m_vertices) = 3 /\ Len(m_indices) = 3
           /\ AllTexCoordsZero(m_vertices)
    /\ (OnlyPositionsAndOneTriangle /\ p_status # "reading") =>
           /\ P_Loaded
           /\ Len(p_meshes) = 1
           /\ p_meshes[1].materialName = "default"
           /\ Len(p_meshes[1].vertices) = 3 /\ Len(p_meshes[1].indices) = 3
           /\ AllTexCoordsZero(p_meshes[1].vertices)

\* C14 witness: four `v` lines, the first three of different corners, and the
\* face `f 1 2 3` have been loaded by both variants.
C14_Witness ==
    /\ OnlyPositionsAndOneTriangle
    /\ Len(VLines) = 4
    /\ S_Loaded /\ P_Loaded

\* The names the library defines: those of its `newmtl` lines.
LibraryNames ==
    IF library.named /\ library.opens
    THEN { library.lines[i].arg :
               i \in { n \in 1..Len(library.lines) : library.lines[n].type = "newmtl" } }
    ELSE {}

\* A pointer to a material named `default` without texture and with the
\* default specular colour (0.333, 0.333, 0.333).
IsSynthesizedDefault(ptr) ==
    /\ ptr # NullPtr
    /\ ptr[1].m_name = "default"
    /\ ptr[1].m_diffuseTexture = NullPtr
    /\ ptr[1].m_Ks = << Norm(333, 1000), Norm(333, 1000), Norm(333, 1000) >>

\* C15: P binds every Mesh whose group names a material that the library does
\* not define to a synthesized material named `default` (no texture, default
\* specular colour), also when the library defines other materials; no Mesh
\* is bound to a null material.
C15_AbsentMaterialBoundToDefault ==
    P_Loaded =>
        /\ Len(p_meshMaterials) = Len(p_meshes)
        /\ \A i \in 1..Len(p_meshes) :
               /\ p_meshMaterials[i] # NullPtr
               /\ p_meshes[i].materialName \notin LibraryNames =>
                      IsSynthesizedDefault(p_meshMaterials[i])

\* The step reads a `mtllib` line.
MtllibStep == Len(file') = Len(file) + 1 /\ LastLine'.type = "mtllib"

\* The library has been named and cannot be opened.
LibraryUnreadable == library.named /\ ~library.opens

\* The meshes P builds from its raw data when the library name is left out.
P_MeshesWithoutLibrary ==
    P_MeshLoop([rawData EXCEPT !.mtlLibName = ""], 1,
               InitialTransform(p_minCoords, p_maxCoords),
               [crash |-> FALSE, value |-> <<0, 0, 0>>], <<>>)

\* C16: a library file that cannot be opened does not touch the geometry: the
\* `mtllib` step leaves status, vertices, indices, parts and raw data of both
\* variants as they are, the loads succeed with the meshes of the file
\* without the library, no material is defined from the library, and every
\* Mesh of P falls back to the synthesized default material.
C16_UnreadableLibraryKeepsGeometry ==
    /\ [][ (MtllibStep /\ ~library'.opens) =>
               /\ UNCHANGED sVars
               /\ s_materials' = s_materials
               /\ rawData' = [rawData EXCEPT !.mtlLibName = rawData'.mtlLibName]
               /\ UNCHANGED << p_status, p_currentMaterialName, p_meshes,
                               p_minCoords, p_maxCoords, p_reported >>
         ]_vars
    /\ [](LibraryUnreadable =>
              /\ s_materials = EmptyMaterials
              /\ s_status # "reading" => S_Loaded
              /\ (p_status # "reading" /\ rawData.faces # <<>>) => P_Loaded
              /\ P_Loaded =>
                     /\ p_meshes = P_MeshesWithoutLibrary
                     /\ DOMAIN p_materials = {"default"}
                     /\ \A i \in 1..Len(p_meshes) :
                            IsSynthesizedDefault(p_meshMaterials[i]))

\* C16 witness: both variants have loaded a file with faces whose library
\* could not be opened.
C16_Witness ==
    /\ LibraryUnreadable
    /\ S_Loaded /\ m_indices # <<>>
    /\ P_Loaded /\ p_meshes # <<>>

\* The library has been named and read.
LibraryRead == library.named /\ library.opens

\* The line of the last `newmtl name` of the library, and the lines after it
\* up to the next `newmtl` line: the attribute lines of that material.
LastNewmtl(name) ==
    CHOOSE i \in 1..Len(library.lines) :
        /\ library.lines[i] = MtlLine("newmtl", name)
        /\ \A j \in (i + 1)..Len(library.lines) : library.lines[j] # MtlLine("newmtl", name)

AttributeLines(name, type) ==
    { j \in (LastNewmtl(name) + 1)..Len(library.lines) :
          /\ library.lines[j].type = type
          /\ \A n \in (LastNewmtl(name) + 1)..j : library.lines[n].type # "newmtl" }

\* The argument of the last line of that type among the material's attribute
\* lines, `none` when it has no such line.
AttributeOf(name, type, none) ==
    IF AttributeLines(name, type) = {} THEN none
    ELSE library.lines[CHOOSE j \in AttributeLines(name, type) :
                           \A n \in AttributeLines(name, type) : n <= j].arg

\* C17: the material map has exactly one entry per `newmtl` name of the
\* library, and the specular colour and the texture of each entry are those of
\* the attribute lines between its `newmtl` line and the next one.
C17_OneMaterialPerNewmtl ==
    LibraryRead =>
        /\ s_status # "failed" =>
               /\ DOMAIN s_materials = LibraryNames
               /\ \A n \in LibraryNames :
                      /\ s_materials[n] # NullPtr
                      /\ s_materials[n][1].name = n
                      /\ s_materials[n][1].diffuseTexturePath = AttributeOf(n, "map_Kd", "")
                      /\ s_materials[n][1].specular =
                             IF AttributeOf(n, "Ks", "") = "" THEN S_DefaultSpecular
                             ELSE ParseKs(AttributeOf(n, "Ks", ""))
        /\ P_Loaded =>
               /\ DOMAIN p_materials \ {"default"} = LibraryNames
               /\ \A n \in LibraryNames :
                      /\ p_materials[n] # NullPtr
                      /\ p_materials[n][1].m_name = n
                      /\ (p_materials[n][1].m_diffuseTexture # NullPtr)
                             <=> (AttributeOf(n, "map_Kd", "") # "")
                      /\ p_materials[n][1].m_Ks =
                             IF AttributeOf(n, "Ks", "") = "" THEN P_DefaultKs
                             ELSE ParseKs(AttributeOf(n, "Ks", ""))

\* The names of the library whose material has a `map_Kd` line.
NamesWithTexture == { n \in LibraryNames : AttributeOf(n, "map_Kd", "") # "" }

\* C18: when the image of a material's `map_Kd` line cannot be decoded, the
\* material is in the material map under its name with a null texture handle,
\* and the load goes on to the end of the file.
C18_DecodeFailureLeavesMaterialTextureless ==
    (LibraryRead /\ ~library.decodes) =>
        /\ s_status # "reading" => S_Loaded
        /\ S_Loaded =>
               \A n \in NamesWithTexture :
                   /\ n \in DOMAIN s_materials
                   /\ s_materials[n] # NullPtr
                   /\ s_materials[n][1].diffuseTexture = NullPtr
        /\ (p_status # "reading" /\ rawData.faces # <<>>) => P_Loaded
        /\ P_Loaded =>
               \A n \in NamesWithTexture :
                   n \in DOMAIN p_materials /\ p_materials[n] # NullPtr =>
                       p_materials[n][1].m_diffuseTexture = NullPtr

\* Nothing of a model exists in S: no vertices, indices or parts, no vertex
\* array object, and the load is not reported as successful.
S_NothingLoaded ==
    /\ s_status = "failed"
    /\ m_vertices = <<>> /\ m_indices = <<>> /\ s_meshes = <<>>
    /\ m_tempPositions = <<>> /\ m_tempTexCoords = <<>>
    /\ s_materials = EmptyMaterials
    /\ m_vao = 0
    /\ ~s_reported

\* Nothing of a model exists in P: no raw data, no Mesh, no Material, and the
\* load is not reported as successful.
P_NothingLoaded ==
    /\ p_status = "failed"
    /\ rawData.positions = <<>> /\ rawData.texCoords = <<>>
    /\ rawData.faces = <<>> /\ rawData.meshGroups = <<>>
    /\ p_meshes = <<>> /\ p_meshMaterials = <<>>
    /\ p_materials = EmptyMaterials
    /\ ~p_reported

\* The file could not be opened: P never pushed its `default` group.
OpenFailed == s_status # "opening" /\ rawData.meshGroups = <<>>

IsUnparsableFace(ln) ==
    /\ ln.type = "f"
    /\ \E j \in 1..Len(ln.arg) : StoulThrows(ln.arg[j])

\* A `f` line of three parsable refs.
IsParsableTriangle(ln) ==
    /\ IsTriangleLine(ln)
    /\ \A j \in 1..3 : ~StoulThrows(ln.arg[j])

\* C20: a face line with an unparsable ref is skipped and nothing else
\* happens: no variant is ended by an uncaught exception, the lines after it
\* are read, and the loaded model has the triangles of the other face lines.
C20_UnparsableRefFaceIsSkipped ==
    /\ s_status # "terminated"
    /\ p_status # "terminated"
    /\ (S_Loaded /\ \A i \in 1..Len(file) : IsF(file[i]) => IsValidTriangle(file[i])
                                                           \/ IsUnparsableFace(file[i])) =>
           Len(m_indices) = 3 * Len(SelectSeq(file, IsParsableTriangle))
    /\ P_Loaded =>
           Len(rawData.faces) = Len(SelectSeq(file, IsParsableTriangle))

\* A face line that is rejected: its number of refs is not 3, or one of its
\* three refs has a position index that is 0 or above the positions read.
IsRejectedFace(ln, npos) ==
    IsF(ln) /\ (Len(ln.arg) # 3 \/ HasBadPositionIndex(ln, npos))

\* C21: reading a rejected face line leaves the accumulated data as it was:
\* positions, texCoords, vertices, the dedup map, indices and the parts (S),
\* and the raw positions, texCoords, faces and material groups (P).
C21_RejectedFaceLeavesDataUnchanged ==
    [][ (Len(file') = Len(file) + 1 /\ IsRejectedFace(LastLine', Len(VLines))) =>
            /\ UNCHANGED << m_tempPositions, m_tempTexCoords, m_vertices,
                            uniqueVertices, m_indices, s_meshes >>
            /\ UNCHANGED rawData
      ]_vars

\* Every `f` line of the file is a valid triangle.
AllFacesValid == \A i \in 1..Len(file) : IsF(file[i]) => IsValidTriangle(file[i])

\* S, loaded: the material name of the part that holds the k-th triangle.
S_MaterialOfTriangle(k) ==
    LET i == CHOOSE i \in 1..Len(s_meshes) :
                 /\ s_meshes[i].baseIndex <= 3 * (k - 1)
                 /\ 3 * k <= s_meshes[i].baseIndex + s_meshes[i].indexCount
    IN  s_meshes[i].materialName

\* The k-th triangle of the file as S holds it: three (position, texCoord)
\* values in winding order and the material name.
S_Triangle(k) ==
    [vertices |-> [j \in 1..3 |->
                      [position |-> S_VertexOfRef(k, j).position,
                       texCoord |-> S_VertexOfRef(k, j).texCoord]],
     materialName |-> S_MaterialOfTriangle(k)]

\* P, loaded: the Mesh and the place in it of the k-th face of rawData.faces.
P_PlaceOfFace(k) ==
    CHOOSE pl \in { <<i, q>> : i \in 1..Len(P_GroupsWithFaces), q \in 1..Len(rawData.faces) } :
        /\ pl[2] <= Len(P_GroupsWithFaces[pl[1]].faceIndices)
        /\ P_GroupsWithFaces[pl[1]].faceIndices[pl[2]] = k - 1

P_Triangle(k) ==
    LET pl == P_PlaceOfFace(k)
    IN  [vertices |-> [j \in 1..3 |->
                          [position |-> P_VertexOfRef(pl[1], pl[2], j).position,
                           texCoord |-> P_VertexOfRef(pl[1], pl[2], j).texCoord]],
         materialName |-> p_meshes[pl[1]].materialName]

\* C22: on a file of valid triangles that both variants load, S and P hold
\* the same sequence of triangles: the same three (position, texCoord) values
\* in winding order and the same material name for each, also when refs
\* without texture index meet `vt` lines.
C22_BothPipelinesSameTriangles ==
    (AllFacesValid /\ S_Loaded /\ P_Loaded) =>
        /\ Len(m_indices) = 3 * Len(rawData.faces)
        /\ \A k \in 1..Len(rawData.faces) : S_Triangle(k) = P_Triangle(k)

\* Vertex::operator< orders the keys of the dedup map strictly: of two
\* different keys exactly one is less than the other, so a lookup has one answer.
KeysStrictlyOrdered(uv) ==
    \A a, b \in DOMAIN uv :
        /\ ~VertexLess(a, a)
        /\ a # b => (VertexLess(a, b) <=> ~VertexLess(b, a))

\* C23: the load is deterministic: the result is a function of the lines
\* read.  In S the dedup map is strictly ordered, so every lookup has one
\* answer; in P the meshes are the ones processData builds from rawData
\* whatever a read outside rawData.positions does, and no run ends otherwise
\* than by loading or by the constructor's error path.
C23_LoadIsDeterministic ==
    /\ KeysStrictlyOrdered(uniqueVertices)
    /\ p_status # "crashed"
    /\ P_Loaded =>
           \A ub \in UBOutcomes :
               p_meshes = P_MeshLoop(rawData, 1,
                                     InitialTransform(p_minCoords, p_maxCoords),
                                     ub, <<>>)

\* C24: while a Model lives, the Materials and Textures on the heap are the
\* ones its material map owns (one entry per Material, one Material per
\* Texture), and once the Model is destroyed none is left and none was
\* released twice.
C24_MaterialsOwnedOnceReleasedOnce ==
    /\ s_status \in {"reading", "loaded", "failed"} => s_heap = S_Released(s_materials)
    /\ p_status \in {"reading", "loaded", "failed"} => p_heap = P_Released(p_materials)
    /\ s_status = "destroyed" => s_heap = EmptyHeap
    /\ p_status = "destroyed" => p_heap = EmptyHeap

PositiveMultipleOfThree(n) == n > 0 /\ n % 3 = 0

\* C25: no emitted part is empty.  Every MeshPart of S and every Mesh of P has
\* a positive multiple of 3 as its index count, S has one part per run of
\* faces of one material name, P has one Mesh per group that owns a face: a
\* name that no face was read under gives no part.
C25_NoEmptyPart ==
    /\ S_Loaded =>
           /\ \A i \in 1..Len(s_meshes) : PositiveMultipleOfThree(s_meshes[i].indexCount)
           /\ Len(s_meshes) = Len(Collapse(NamesAtFaces(file, 1, "default")))
    /\ P_Loaded =>
           /\ \A i \in 1..Len(p_meshes) : PositiveMultipleOfThree(Len(p_meshes[i].indices))
           /\ Len(p_meshes) = Len(P_GroupsWithFaces)
           /\ \A i \in 1..Len(p_meshes) :
                  Len(p_meshes[i].indices) = 3 * Len(P_GroupsWithFaces[i].faceIndices)

\* C25 witness: `usemtl B`, `usemtl A`, then the first face: the groups
\* `default` and `B` own no face, and both variants hold the one part `A`.
C25_Witness ==
    /\ S_Loaded /\ P_Loaded
    /\ Len(rawData.meshGroups) = 3
    /\ rawData.meshGroups[1].faceIndices = <<>>
    /\ rawData.meshGroups[2].faceIndices = <<>>
    /\ Len(p_meshes) = 1 /\ p_meshes[1].materialName = "A"
    /\ Len(s_meshes) = 1 /\ s_meshes[1].materialName = "A"

(***************************************************************************)
(* Loaded Models placed in the world: the file `v 0 0 0`, `v 2 4 1`        *)
(* followed by at most one `f 1 2 1`, then calls of the setters and draw.  *)
(***************************************************************************)
MaxCalls == 3

PositionValues == { <<1, 2, 3>>, <<0, -1, 0>> }

\* A third of a turn about the diagonal, half a turn about an unnormalised z.
RotationValues ==
    { [angle |-> 120, axis |-> <<1, 1, 1>>], [angle |-> 180, axis |-> <<0, 0, 2>>] }

ScaleValues == { <<2, 1, 3>>, <<1, 2, 1>> }

ViewValues == { GlmTranslate(Mat4Identity, ParseVec3(<<0, 0, -3>>)) }

ProjectionValues == { GlmScale(Mat4Identity, ParseVec3(<<2, 2, 1>>)) }

PoseReadF == Len(file) = 2 /\ OnF({FaceTriangle}, MaxMaterialLines)

PoseSetPosition == SetPosition(PositionValues, MaxCalls)

PoseSetRotation == SetRotation(RotationValues, MaxCalls)

PoseSetScale == SetScale(ScaleValues, MaxCalls)

PoseSetViewMatrix == SetViewMatrix(ViewValues, MaxCalls)

PoseSetProjectionMatrix == SetProjectionMatrix(ProjectionValues, MaxCalls)

PoseDraw == Draw(MaxCalls)

NextPose ==
    PoseReadF \/ EndOfFile \/ PoseSetPosition \/ PoseSetRotation \/ PoseSetScale \/
    PoseSetViewMatrix \/ PoseSetProjectionMatrix \/ PoseDraw

SpecPose == InitMaterials /\ [][NextPose]_vars

\* The positions of the vertices of the Meshes of P, Mesh i on.
RECURSIVE P_DrawnPositions(_, _)
P_DrawnPositions(meshes, i) ==
    IF i > Len(meshes) THEN <<>>
    ELSE [k \in 1..Len(meshes[i].vertices) |-> meshes[i].vertices[k].position]
         \o P_DrawnPositions(meshes, i + 1)

\* The centre of the bounding box of what P draws, in the space of the Model.
P_DrawnCenter ==
    LET box == CalculateBoundingBox(P_DrawnPositions(p_meshes, 1))
    IN  CenterOf(box.min, box.max)

\* C26: in P, getWorldCenter() is the model matrix applied to the centre of
\* the bounding box of the vertices that draw() renders, whatever position,
\* rotation and scale have been set.
C26_WorldCenterIsCenterOfDrawnGeometry ==
    (P_Loaded /\ p_meshes # <<>>) =>
        getWorldCenter(p_pose, m_localCenter)
            = TransformPosition(p_pose.m_modelMatrix, P_DrawnCenter)

\* The argument of the last call of a setter, or a default when it was never called.
RECURSIVE LastSet(_, _, _)
LastSet(cs, name, default) ==
    IF cs = <<>> THEN default
    ELSE IF cs[Len(cs)].name = name THEN cs[Len(cs)].arg
    ELSE LastSet(SubSeq(cs, 1, Len(cs) - 1), name, default)

\* cos of an angle of 0, 120 or 180 degrees.
CosOf(angle) ==
    IF angle = 0 THEN One ELSE IF angle = 120 THEN RDiv(ToRat(-1), ToRat(2)) ELSE ToRat(-1)

\* The rotation by rot.angle about rot.axis, by Rodrigues' formula
\* R = cos I + sin [k]x + (1 - cos) k k^T with k = axis / |axis|, as columns.
RotationColumns(rot) ==
    LET a == ParseVec3(rot.axis)
        c == CosOf(rot.angle)
        n2 == RAdd(RAdd(RMul(a[1], a[1]), RMul(a[2], a[2])), RMul(a[3], a[3]))
        s == RatSqrt(RDiv(RSub(One, RMul(c, c)), n2))
        t == RDiv(RSub(One, c), n2)
        Cross(i, j) ==
            IF i = j THEN Zero
            ELSE IF <<i, j>> \in {<<2, 1>>, <<3, 2>>, <<1, 3>>}
                 THEN RMul(s, a[6 - i - j])
                 ELSE RNeg(RMul(s, a[6 - i - j]))
        Entry(i, j) ==
            RAdd(RAdd(IF i = j THEN c ELSE Zero, Cross(i, j)),
                 RMul(t, RMul(a[i], a[j])))
    IN  [j \in 1..3 |-> [i \in 1..3 |-> Entry(i, j)]]

\* Translate(position) * Rotate(rotation) * Scale(scale): the columns of the
\* rotation scaled one by one, then the position.
ExpectedModelMatrix(cs) ==
    LET pos == ParseVec3(LastSet(cs, "setPosition", <<0, 0, 0>>))
        r == RotationColumns(LastSet(cs, "setRotation", [angle |-> 0, axis |-> <<1, 0, 0>>]))
        sc == ParseVec3(LastSet(cs, "setScale", <<1, 1, 1>>))
        Col(j) == <<RMul(r[j][1], sc[j]), RMul(r[j][2], sc[j]), RMul(r[j][3], sc[j]), Zero>>
    IN  << Col(1), Col(2), Col(3), <<pos[1], pos[2], pos[3], One>> >>

PoseFollowsCalls(pose) ==
    /\ pose.m_modelMatrix = ExpectedModelMatrix(calls)
    /\ pose.m_currentPosition = ParseVec3(LastSet(calls, "setPosition", <<0, 0, 0>>))
    /\ pose.m_currentScale = ParseVec3(LastSet(calls, "setScale", <<1, 1, 1>>))

ModelPart(pose) ==
    << pose.m_modelMatrix, pose.m_currentPosition, pose.m_currentRotation,
       pose.m_currentScale >>

CameraCall ==
    /\ Len(calls') = Len(calls) + 1
    /\ calls'[Len(calls')].name \in {"setViewMatrix", "setProjectionMatrix"}

\* C27: after any calls of the setters and draw on a constructed Model, the
\* model matrix is Translate * Rotate * Scale of the position, rotation and
\* scale set last (none, none and 1 when never set), so setRotation replaces
\* the rotation; setViewMatrix and setProjectionMatrix change neither the
\* model matrix nor position, rotation and scale.
C27_ModelMatrixIsTRSOfLastSet ==
    /\ [](S_Constructed => PoseFollowsCalls(s_pose))
    /\ [](P_Constructed => PoseFollowsCalls(p_pose))
    /\ [][CameraCall => /\ ModelPart(s_pose') = ModelPart(s_pose)
                        /\ ModelPart(p_pose') = ModelPart(p_pose)]_vars

\* Two rotations have been set one after the other, then the camera.
C27_Witness ==
    /\ S_Loaded /\ P_Loaded
    /\ Len(calls) = 3
    /\ calls[1].name = "setRotation" /\ calls[2].name = "setRotation"
    /\ calls[1].arg # calls[2].arg
    /\ calls[3].name = "setViewMatrix"
    /\ s_pose.m_modelMatrix # Mat4Identity
    /\ s_pose.m_viewMatrix # Mat4Identity

(***************************************************************************)
(* Loaded Models drawn: the file `v 0 0 0`, `v 2 4 1`, `mtllib lib.mtl`,    *)
(* then `f 1 2 1`, `usemtl A` and `usemtl B` lines; the library gives A a  *)
(* texture, which decodes or does not.                                     *)
(***************************************************************************)
MaxDrawLines == 7

MaxDraws == 2

DrawLibraries ==
    { [named |-> TRUE, opens |-> TRUE, decodes |-> d,
       lines |-> << MtlLine("newmtl", "A"), MtlLine("map_Kd", "t.png") >>] :
          d \in BOOLEAN }

DrawReadMtllib == Len(file) = 2 /\ OnMtllib(DrawLibraries, MaxDrawLines)

DrawReadF == Len(file) > 2 /\ OnF({FaceTriangle}, MaxDrawLines)

DrawReadUsemtl == Len(file) > 2 /\ OnUsemtl(GroupMaterialNames, MaxDrawLines)

DrawDraw == Draw(MaxDraws)

NextDraw == DrawReadMtllib \/ DrawReadF \/ DrawReadUsemtl \/ EndOfFile \/ DrawDraw

SpecDraw == InitMaterials /\ [][NextDraw]_vars

\* The number of draw() calls made so far.
DrawsCalled == Cardinality({ k \in 1..Len(calls) : calls[k].name = "draw" })

\* The id of the diffuse texture of the material of part i, 0 when the part
\* has no material or the material no loaded texture.
S_OwnTexture(i) ==
    LET name == s_meshes[i].materialName
    IN  IF name \notin DOMAIN s_materials THEN 0
        ELSE IF s_materials[name][1].diffuseTexture = NullPtr THEN 0
        ELSE s_materials[name][1].diffuseTexture[1].textureID

P_OwnTexture(i) ==
    IF p_meshMaterials[i] = NullPtr THEN 0
    ELSE IF p_meshMaterials[i][1].m_diffuseTexture = NullPtr THEN 0
    ELSE p_meshMaterials[i][1].m_diffuseTexture[1].textureID

\* The part that the k-th draw call is for, when every draw() goes through
\* all n parts in list order.
PartOfDrawCall(k, n) == ((k - 1) % n) + 1

MaxFailLines == 4

FailFaceLines == { FaceTriangle, FaceBadIndex }

FailReadV == OnV(PosValues, MaxFailLines)

FailReadF == OnF(FailFaceLines, MaxFailLines)

FailDraw == Draw(MaxDraws)

NextFail == FileOpens \/ FileOpenFails \/ FailReadV \/ FailReadF \/ EndOfFile \/ FailDraw

SpecFail == InitUnopened /\ [][NextFail]_vars

\* C29: a Model whose load has failed, because the file did not open or
\* because the loader gave up part-way through it, has no GPU buffers, and
\* draw() on it issues no draw call, whatever the Model has accumulated
\* before the failure.
C29_FailedLoadDrawsNothing ==
    /\ s_status = "failed" => (m_vao = 0 /\ s_gl.drawCalls = <<>>)
    /\ p_status = "failed" => (p_meshes = <<>> /\ p_gl.drawCalls = <<>>)

\* S gave up on a bad index after a good face, and draw() has been called.
C29_Witness ==
    /\ s_status = "failed"
    /\ m_vertices # <<>> /\ m_indices # <<>> /\ s_meshes # <<>>
    /\ DrawsCalled > 0

====
